---------------------------- MODULE Spec2Model ----------------------------
(***************************************************************************)
(* Model of the .NET BinaryFormatter stream decoder of                     *)
(* dinkum-save-converter: BinaryReader (src/src/classes/BinaryReader.js)   *)
(* and DotNetBinaryReader.read with its record routines                    *)
(* (src/src/classes/DotNetBinaryReader.js, the class that starts at line   *)
(* 852).                                                                   *)
(*                                                                         *)
(* A buffer is a sequence of bytes 0..255; the cursor `position` is the    *)
(* 0-based index of the next byte, as in the code, so the byte at cursor p *)
(* is buf[p + 1].  Every read routine is an operator from (buf, pos) to a  *)
(* result [err, pos, val]: err = NoErr and the value read with the cursor  *)
(* after it, or the class of the JavaScript exception thrown and the       *)
(* cursor at the throw.                                                    *)
(*                                                                         *)
(* Values wider than TLC's integers are kept as little-endian tuples of    *)
(* 16-bit limbs: an unsigned 32-bit value as U32 (two limbs), a BigInt as  *)
(* four limbs and its signedness, a float as the limbs of its bit pattern. *)
(* A JavaScript string is the sequence of its UTF-16 code units.           *)
(***************************************************************************)
EXTENDS Integers, Sequences, FiniteSets, TLC

VARIABLES buffer, position, records, status, thrown, result

(* The batch driver's state: the entries of the save directory it loops    *)
(* over, the index of the entry the loop is at, and the files of the       *)
(* _JSON_DUMP directory.                                                   *)
VARIABLES saveDirEntries, entryIndex, dumpDir

(* DotNetBinaryReader.#fs, the one static field, and the readFile calls in *)
(* flight.                                                                 *)
VARIABLES fs, calls

(* One call of #readClassWithMembersAndTypes followed statement by         *)
(* statement: frame is the call's place and locals (the loop it is in, the *)
(* loop index, the record being filled), readLog the reads made so far,    *)
(* each with the bytes it took.                                            *)
VARIABLES frame, readLog

driverVars == <<saveDirEntries, entryIndex, dumpDir>>
callVars == <<fs, calls>>
frameVars == <<frame, readLog>>

vars == <<buffer, position, records, status, thrown, result,
          saveDirEntries, entryIndex, dumpDir, fs, calls, frame, readLog>>

(***************************************************************************)
(* JavaScript values that occur where the code stores values of several    *)
(* types (AdditionalInfos, MemberValues).                                  *)
(***************************************************************************)
Num(n) == [t |-> "number", v |-> n]
Str(s) == [t |-> "string", v |-> s]
Bool(b) == [t |-> "boolean", v |-> b]
BigIntOf(limbs, isSigned) == [t |-> "bigint", limbs |-> limbs, signed |-> isSigned]
FloatOf(limbs) == [t |-> "float", bits |-> limbs]
U32(lo, hi) == [lo |-> lo, hi |-> hi]
U32Positive(u) == u.lo > 0 \/ u.hi > 0
Null == [t |-> "null"]
Undefined == [t |-> "undefined"]
Hole == [t |-> "empty"]

(***************************************************************************)
(* Exceptions: the class of the thrown object.  RangeError is DataView's   *)
(* out-of-bounds read, AssertionError is node:assert, Error is a           *)
(* "not implemented" throw, TypeError is read()'s default branch.          *)
(***************************************************************************)
NoErr == "none"
RangeError == "RangeError"
AssertionError == "AssertionError"
NotImplementedError == "Error"
TypeError == "TypeError"

Ok(pos, val) == [err |-> NoErr, pos |-> pos, val |-> val]
Throw(err, pos) == [err |-> err, pos |-> pos, val |-> Undefined]

(* r, then K on its result; an exception in r ends the routine *)
Bind(r, K(_)) ==
    CHOOSE out \in {IF x.err # NoErr THEN x ELSE K(x) : x \in {r}} : TRUE

(* assert(value, message) of node:assert, then K *)
assert(cond, pos, K) == IF cond THEN K ELSE Throw(AssertionError, pos)

(***************************************************************************)
(* BinaryReader: DataView reads.  A DataView getter throws RangeError when *)
(* the bytes pos .. pos+n-1 are not all inside the buffer.                 *)
(***************************************************************************)
InView(buf, pos, n) == pos >= 0 /\ pos + n <= Len(buf)
ByteAt(buf, pos) == buf[pos + 1]
SignedByte(b) == IF b >= 128 THEN b - 256 ELSE b
(* getUint16 without the littleEndian flag: big-endian *)
LimbBigEndian(buf, pos) == 256 * ByteAt(buf, pos) + ByteAt(buf, pos + 1)

Limb(buf, pos) == ByteAt(buf, pos) + 256 * ByteAt(buf, pos + 1)
SignedLimb(l) == IF l >= 32768 THEN l - 65536 ELSE l

PositionInit == 1

readInt8(buf, pos) ==
    IF InView(buf, pos, 1) THEN Ok(pos + 1, SignedByte(ByteAt(buf, pos)))
    ELSE Throw(RangeError, pos)

(* readUInt8 without the bounds check of DataView: a byte past the end reads 0 *)
readUInt8Unchecked(buf, pos) ==
    IF InView(buf, pos, 1) THEN Ok(pos + 1, ByteAt(buf, pos)) ELSE Ok(pos + 1, 0)

readUInt8(buf, pos) ==
    IF InView(buf, pos, 1) THEN Ok(pos + 1, ByteAt(buf, pos))
    ELSE Throw(RangeError, pos)

readInt16(buf, pos) ==
    IF InView(buf, pos, 2) THEN Ok(pos + 2, SignedLimb(Limb(buf, pos)))
    ELSE Throw(RangeError, pos)

readUInt16(buf, pos) ==
    IF InView(buf, pos, 2) THEN Ok(pos + 2, Limb(buf, pos))
    ELSE Throw(RangeError, pos)

readInt32(buf, pos) ==
    IF InView(buf, pos, 4)
    THEN Ok(pos + 4, Limb(buf, pos) + 65536 * SignedLimb(Limb(buf, pos + 2)))
    ELSE Throw(RangeError, pos)

readUInt32(buf, pos) ==
    IF InView(buf, pos, 4)
    THEN Ok(pos + 4, U32(Limb(buf, pos), Limb(buf, pos + 2)))
    ELSE Throw(RangeError, pos)

Limbs(buf, pos, n) == [k \in 1..n |-> Limb(buf, pos + 2 * (k - 1))]

readInt64(buf, pos) ==
    IF InView(buf, pos, 8) THEN Ok(pos + 8, BigIntOf(Limbs(buf, pos, 4), TRUE))
    ELSE Throw(RangeError, pos)

readUInt64(buf, pos) ==
    IF InView(buf, pos, 8) THEN Ok(pos + 8, BigIntOf(Limbs(buf, pos, 4), FALSE))
    ELSE Throw(RangeError, pos)

readFloat32(buf, pos) ==
    IF InView(buf, pos, 4) THEN Ok(pos + 4, FloatOf(Limbs(buf, pos, 2)))
    ELSE Throw(RangeError, pos)

readFloat64(buf, pos) ==
    IF InView(buf, pos, 8) THEN Ok(pos + 8, FloatOf(Limbs(buf, pos, 4)))
    ELSE Throw(RangeError, pos)

(* String.fromCharCode takes each argument modulo 2^16. *)
ToUint16(n) == n % 65536


(***************************************************************************)
(* DotNetBinaryReader: enumerations.                                       *)
(***************************************************************************)
BinaryArrayTypeEnumeration ==
    [Single |-> 0, Jagged |-> 1, Rectangular |-> 2,
     SingleOffset |-> 3, JaggedOffset |-> 4, RectangularOffset |-> 5]

BinaryTypeEnumeration ==
    [Primitive |-> 0, String |-> 1, Object |-> 2, SystemClass |-> 3,
     Class |-> 4, ObjectArray |-> 5, StringArray |-> 6, PrimitiveArray |-> 7]

PrimitiveTypeEnumeration ==
    [Boolean |-> 1, Byte |-> 2, Char |-> 3, Unused |-> 4, Decimal |-> 5,
     Double |-> 6, Int16 |-> 7, Int32 |-> 8, Int64 |-> 9, SByte |-> 10,
     Single |-> 11, TimeSpan |-> 12, DateTime |-> 13, UInt16 |-> 14,
     UInt32 |-> 15, UInt64 |-> 16, Null |-> 17, String |-> 18]

RecordTypeEnumeration ==
    [SerializedStreamHeader |-> 0, ClassWithId |-> 1,
     SystemClassWithMembers |-> 2, ClassWithMembers |-> 3,
     SystemClassWithMembersAndTypes |-> 4, ClassWithMembersAndTypes |-> 5,
     BinaryObjectString |-> 6, BinaryArray |-> 7, MemberPrimitiveTyped |-> 8,
     MemberReference |-> 9, ObjectNull |-> 10, MessageEnd |-> 11,
     BinaryLibrary |-> 12, ObjectNullMultiple256 |-> 13,
     ObjectNullMultiple |-> 14, ArraySinglePrimitive |-> 15,
     ArraySingleObject |-> 16, ArraySingleString |-> 17,
     MethodCall |-> 21, MethodReturn |-> 22]

(***************************************************************************)
(* Value functions.                                                        *)
(***************************************************************************)

(* The loop of #readLengthPrefixedString: n more bytes, one code unit      *)
(* each.  The k-th pass reads the byte at pos + k - 1; the first pass that *)
(* throws ends the loop with the cursor where it stood.                    *)
FirstThrow(reads) ==
    reads[CHOOSE k \in DOMAIN reads :
            reads[k].err # NoErr /\ \A j \in 1..(k - 1) : reads[j].err = NoErr]

(* the loop with readInt8 in place of readUInt8 *)
ReadStringUnitsSigned(buf, pos, n, units) ==
    LET reads == [k \in 1..n |-> readInt8(buf, pos + k - 1)]
    IN IF \E k \in 1..n : reads[k].err # NoErr THEN FirstThrow(reads)
       ELSE Ok(pos + n, Str(units \o [k \in 1..n |-> ToUint16(reads[k].val)]))

ReadStringUnits(buf, pos, n, units) ==
    LET reads == [k \in 1..n |-> readUInt8(buf, pos + k - 1)]
    IN IF \E k \in 1..n : reads[k].err # NoErr THEN FirstThrow(reads)
       ELSE Ok(pos + n, Str(units \o [k \in 1..n |-> ToUint16(reads[k].val)]))

readLengthPrefixedString(buf, pos) ==
    Bind(readUInt8(buf, pos), LAMBDA length:
    ReadStringUnits(buf, length.pos, length.val, <<>>))

(* BinaryReader.readString: the same loop in the base class. *)
readString(buf, pos) ==
    Bind(readUInt8(buf, pos), LAMBDA length:
    ReadStringUnits(buf, length.pos, length.val, <<>>))

readChar(buf, pos) ==
    Bind(readInt8(buf, pos), LAMBDA int:
    Ok(int.pos, Str(<<ToUint16(int.val)>>)))

(* the text taken for a number: the value is no longer the string *)
readDecimalAsNumber(buf, pos) ==
    Bind(readLengthPrefixedString(buf, pos), LAMBDA decimal:
    Ok(decimal.pos, [t |-> "number", text |-> decimal.val.v]))

readDecimal(buf, pos) == readLengthPrefixedString(buf, pos)

(* A numeric read whose result is stored as a JavaScript number. *)
AsNum(r) == Bind(r, LAMBDA n: Ok(n.pos, Num(n.val)))
AsUNum(r) == Bind(r, LAMBDA n: Ok(n.pos, [t |-> "number", u32 |-> n.val]))

readPrimitive(buf, pos, type) ==
    CASE type = PrimitiveTypeEnumeration.Boolean ->
           Bind(readInt8(buf, pos), LAMBDA b: Ok(b.pos, Bool(b.val # 0)))
      [] type = PrimitiveTypeEnumeration.Byte -> AsNum(readUInt8(buf, pos))
      [] type = PrimitiveTypeEnumeration.Char -> readChar(buf, pos)
      [] type = PrimitiveTypeEnumeration.Unused -> Throw(NotImplementedError, pos)
      [] type = PrimitiveTypeEnumeration.Decimal -> readDecimal(buf, pos)
      [] type = PrimitiveTypeEnumeration.Double -> readFloat64(buf, pos)
      [] type = PrimitiveTypeEnumeration.Int16 -> AsNum(readInt16(buf, pos))
      [] type = PrimitiveTypeEnumeration.Int32 -> AsNum(readInt32(buf, pos))
      [] type = PrimitiveTypeEnumeration.Int64 -> readInt64(buf, pos)
      [] type = PrimitiveTypeEnumeration.SByte -> AsNum(readInt8(buf, pos))
      [] type = PrimitiveTypeEnumeration.Single -> readFloat32(buf, pos)
      [] type = PrimitiveTypeEnumeration.TimeSpan -> readInt64(buf, pos)
      [] type = PrimitiveTypeEnumeration.DateTime -> readInt64(buf, pos)
      [] type = PrimitiveTypeEnumeration.UInt16 -> AsNum(readUInt16(buf, pos))
      [] type = PrimitiveTypeEnumeration.UInt32 -> AsUNum(readUInt32(buf, pos))
      [] type = PrimitiveTypeEnumeration.UInt64 -> readUInt64(buf, pos)
      [] type = PrimitiveTypeEnumeration.Null -> Throw(NotImplementedError, pos)
      [] type = PrimitiveTypeEnumeration.String -> readLengthPrefixedString(buf, pos)
      [] OTHER -> Throw(NotImplementedError, pos)

(***************************************************************************)
(* Structure functions.                                                    *)
(***************************************************************************)
readArrayInfo(buf, pos) ==
    Bind(readInt32(buf, pos), LAMBDA oid:
    assert(oid.val > 0, oid.pos,
    Bind(readInt32(buf, oid.pos), LAMBDA length:
    assert(length.val >= 0, length.pos,
    Ok(length.pos, [ObjectId |-> oid.val, Length |-> length.val])))))

readClassTypeInfo(buf, pos) ==
    Bind(readLengthPrefixedString(buf, pos), LAMBDA name:
    Bind(readInt32(buf, name.pos), LAMBDA lib:
    Ok(lib.pos, [t |-> "object", TypeName |-> name.val.v, LibraryId |-> lib.val])))

(* the switch with a class name read for SystemClass, as for Class *)
readAdditionalInfoSystemClassName(buf, pos, binaryTypeEnum) ==
    CASE binaryTypeEnum \in {BinaryTypeEnumeration.Primitive,
                             BinaryTypeEnumeration.PrimitiveArray} ->
           AsNum(readInt8(buf, pos))
      [] binaryTypeEnum \in {BinaryTypeEnumeration.String,
                             BinaryTypeEnumeration.Object,
                             BinaryTypeEnumeration.ObjectArray,
                             BinaryTypeEnumeration.StringArray} -> Ok(pos, Null)
      [] binaryTypeEnum = BinaryTypeEnumeration.SystemClass ->
           readLengthPrefixedString(buf, pos)
      [] binaryTypeEnum = BinaryTypeEnumeration.Class -> readClassTypeInfo(buf, pos)
      [] OTHER -> Ok(pos, Undefined)

readAdditionalInfo(buf, pos, binaryTypeEnum) ==
    CASE binaryTypeEnum = BinaryTypeEnumeration.Primitive -> AsNum(readInt8(buf, pos))
      [] binaryTypeEnum = BinaryTypeEnumeration.String -> Ok(pos, Null)
      [] binaryTypeEnum = BinaryTypeEnumeration.Object -> Ok(pos, Null)
      [] binaryTypeEnum = BinaryTypeEnumeration.SystemClass ->
           Throw(NotImplementedError, pos)
      [] binaryTypeEnum = BinaryTypeEnumeration.Class -> readClassTypeInfo(buf, pos)
      [] binaryTypeEnum = BinaryTypeEnumeration.ObjectArray -> Ok(pos, Null)
      [] binaryTypeEnum = BinaryTypeEnumeration.StringArray -> Ok(pos, Null)
      [] binaryTypeEnum = BinaryTypeEnumeration.PrimitiveArray ->
           AsNum(readInt8(buf, pos))
      [] OTHER -> Ok(pos, Undefined)

(* The MemberNames loop of #readClassInfo. *)
RECURSIVE ReadMemberNames(_, _, _, _)
ReadMemberNames(buf, pos, n, names) ==
    IF n <= 0 THEN Ok(pos, names)
    ELSE Bind(readLengthPrefixedString(buf, pos), LAMBDA name:
         ReadMemberNames(buf, name.pos, n - 1, Append(names, name.val.v)))

readClassInfo(buf, pos) ==
    Bind(readInt32(buf, pos), LAMBDA oid:
    Bind(readLengthPrefixedString(buf, oid.pos), LAMBDA name:
    Bind(readInt32(buf, name.pos), LAMBDA count:
    assert(count.val >= 0, count.pos,
    Bind(ReadMemberNames(buf, count.pos, count.val, <<>>), LAMBDA names:
    Ok(names.pos, [ObjectId |-> oid.val, Name |-> name.val.v,
                   MemberCount |-> count.val, MemberNames |-> names.val]))))))

(* The two loops of #readMemberTypeInfo. *)
RECURSIVE ReadBinaryTypeEnums(_, _, _, _)
ReadBinaryTypeEnums(buf, pos, n, enums) ==
    IF n <= 0 THEN Ok(pos, enums)
    ELSE Bind(readUInt8(buf, pos), LAMBDA b:
         ReadBinaryTypeEnums(buf, b.pos, n - 1, Append(enums, b.val)))

RECURSIVE ReadAdditionalInfos(_, _, _, _, _)
ReadAdditionalInfos(buf, pos, enums, i, infos) ==
    IF i > Len(enums) THEN Ok(pos, infos)
    ELSE Bind(readAdditionalInfo(buf, pos, enums[i]), LAMBDA info:
         ReadAdditionalInfos(buf, info.pos, enums, i + 1, Append(infos, info.val)))

readMemberTypeInfo(buf, pos, classInfo) ==
    Bind(ReadBinaryTypeEnums(buf, pos, classInfo.MemberCount, <<>>), LAMBDA enums:
    Bind(ReadAdditionalInfos(buf, enums.pos, enums.val, 1, <<>>), LAMBDA infos:
    Ok(infos.pos, [BinaryTypeEnums |-> enums.val, AdditionalInfos |-> infos.val])))

(* memberValues[i] = v on a JavaScript array: the indices skipped so far   *)
(* become holes.  i is 1-based here.                                       *)
RECURSIVE SetIndex(_, _, _)
SetIndex(values, i, v) ==
    IF Len(values) + 1 = i THEN Append(values, v)
    ELSE SetIndex(Append(values, Hole), i, v)

(* the reference without its tag byte: { IdRef } from four bytes *)
ReadInlineReferenceUntagged(buf, pos) ==
    Bind(readInt32(buf, pos), LAMBDA ref:
    Ok(ref.pos, [t |-> "object", RecordTypeEnum |-> RecordTypeEnumeration.MemberReference,
                 IdRef |-> ref.val]))

(* The Class case of #readClassMemberValues: { RecordTypeEnum, IdRef }. *)
ReadInlineReference(buf, pos) ==
    Bind(readInt8(buf, pos), LAMBDA tag:
    Bind(readInt32(buf, tag.pos), LAMBDA ref:
    Ok(ref.pos, [t |-> "object", RecordTypeEnum |-> tag.val, IdRef |-> ref.val])))

(* One pass of the switch in the first loop of #readClassMemberValues: the *)
(* value assigned to memberValues[i], or NoValue when no case assigns.     *)
NoValue == [t |-> "unassigned"]

(* the switch with the array read in the PrimitiveArray case itself: one   *)
(* pass over the members in place of two                                   *)
ReadMemberValueArrayInPlace(buf, pos, binaryTypeEnum, additionalInfo) ==
    CASE binaryTypeEnum = BinaryTypeEnumeration.Primitive ->
           readPrimitive(buf, pos, additionalInfo.v)
      [] binaryTypeEnum = BinaryTypeEnumeration.String ->
           readLengthPrefixedString(buf, pos)
      [] binaryTypeEnum = BinaryTypeEnumeration.Class -> ReadInlineReference(buf, pos)
      [] binaryTypeEnum = BinaryTypeEnumeration.PrimitiveArray ->
           Bind(readInt8(buf, pos), LAMBDA tag:
           Bind(readArrayInfo(buf, tag.pos), LAMBDA arrayInfo:
           Ok(arrayInfo.pos, NoValue)))
      [] binaryTypeEnum \in {BinaryTypeEnumeration.Object,
                             BinaryTypeEnumeration.SystemClass,
                             BinaryTypeEnumeration.ObjectArray,
                             BinaryTypeEnumeration.StringArray} ->
           Throw(NotImplementedError, pos)
      [] OTHER -> Ok(pos, NoValue)

ReadMemberValue(buf, pos, binaryTypeEnum, additionalInfo) ==
    CASE binaryTypeEnum = BinaryTypeEnumeration.Primitive ->
           readPrimitive(buf, pos, additionalInfo.v)
      [] binaryTypeEnum = BinaryTypeEnumeration.String ->
           readLengthPrefixedString(buf, pos)
      [] binaryTypeEnum = BinaryTypeEnumeration.Object -> Throw(NotImplementedError, pos)
      [] binaryTypeEnum = BinaryTypeEnumeration.SystemClass ->
           Throw(NotImplementedError, pos)
      [] binaryTypeEnum = BinaryTypeEnumeration.Class -> ReadInlineReference(buf, pos)
      [] binaryTypeEnum = BinaryTypeEnumeration.ObjectArray ->
           Throw(NotImplementedError, pos)
      [] binaryTypeEnum = BinaryTypeEnumeration.StringArray ->
           Throw(NotImplementedError, pos)
      [] binaryTypeEnum = BinaryTypeEnumeration.PrimitiveArray -> Ok(pos, NoValue)
      [] OTHER -> Ok(pos, NoValue)

(* First loop of #readClassMemberValues. *)
RECURSIVE ReadMemberValuesLoop(_, _, _, _, _)
ReadMemberValuesLoop(buf, pos, record, i, values) ==
    IF i > record.ClassInfo.MemberCount THEN Ok(pos, values)
    ELSE Bind(ReadMemberValue(buf, pos, record.MemberTypeInfo.BinaryTypeEnums[i],
                              record.MemberTypeInfo.AdditionalInfos[i]),
              LAMBDA read:
              ReadMemberValuesLoop(buf, read.pos, record, i + 1,
                  IF read.val = NoValue THEN values
                  ELSE SetIndex(values, i, read.val)))

(* Second loop of #readClassMemberValues: the PrimitiveArray members. *)
RECURSIVE ReadPrimitiveArraysLoop(_, _, _, _)
ReadPrimitiveArraysLoop(buf, pos, record, i) ==
    IF i > record.ClassInfo.MemberCount THEN Ok(pos, Undefined)
    ELSE IF record.MemberTypeInfo.BinaryTypeEnums[i] # BinaryTypeEnumeration.PrimitiveArray
    THEN ReadPrimitiveArraysLoop(buf, pos, record, i + 1)
    ELSE Bind(readInt8(buf, pos), LAMBDA tag:
         Bind(readArrayInfo(buf, tag.pos), LAMBDA arrayInfo:
         ReadPrimitiveArraysLoop(buf, arrayInfo.pos, record, i + 1)))

readClassMemberValues(buf, pos, record) ==
    Bind(ReadMemberValuesLoop(buf, pos, record, 1, <<>>), LAMBDA values:
    Bind(ReadPrimitiveArraysLoop(buf, values.pos, record, 1), LAMBDA arrays:
    Ok(arrays.pos, values.val)))

(***************************************************************************)
(* Record functions.  Each takes the cursor just after the record's tag    *)
(* byte and the records read so far, and yields the record to push.        *)
(***************************************************************************)
(* the record with its elements passed over: Length values of four bytes *)
readArraySinglePrimitiveWithElements(buf, pos, previousRecords) ==
    Bind(readArrayInfo(buf, pos), LAMBDA arrayInfo:
    Bind(readInt8(buf, arrayInfo.pos), LAMBDA type:
    assert(type.val >= 0 /\ type.val <= 16, type.pos,
    Ok(type.pos + 4 * arrayInfo.val.Length,
       [RecordTypeEnum |-> RecordTypeEnumeration.ArraySinglePrimitive,
        ArrayInfo |-> arrayInfo.val,
        PrimitiveTypeEnum |-> type.val]))))

readArraySinglePrimitive(buf, pos, previousRecords) ==
    Bind(readArrayInfo(buf, pos), LAMBDA arrayInfo:
    Bind(readInt8(buf, arrayInfo.pos), LAMBDA type:
    assert(type.val >= 0 /\ type.val <= 16, type.pos,
    Ok(type.pos, [RecordTypeEnum |-> RecordTypeEnumeration.ArraySinglePrimitive,
                  ArrayInfo |-> arrayInfo.val,
                  PrimitiveTypeEnum |-> type.val]))))

(* The Lengths and LowerBounds loops of #readBinaryArray. *)
RECURSIVE ReadInt32s(_, _, _, _)
ReadInt32s(buf, pos, n, ints) ==
    IF n <= 0 THEN Ok(pos, ints)
    ELSE Bind(readInt32(buf, pos), LAMBDA int:
         ReadInt32s(buf, int.pos, n - 1, Append(ints, int.val)))

IsOffsetArray(binaryArrayTypeEnum) ==
    binaryArrayTypeEnum \in {BinaryArrayTypeEnumeration.SingleOffset,
                             BinaryArrayTypeEnumeration.JaggedOffset,
                             BinaryArrayTypeEnumeration.RectangularOffset}

(* the block without its test: LowerBounds read for every kind of array *)
ReadLowerBoundsOfAnyKind(buf, pos, shape) ==
    Bind(ReadInt32s(buf, pos, shape.Rank, <<>>), LAMBDA bounds:
    Ok(bounds.pos, shape @@ [LowerBounds |-> bounds.val]))

(* The LowerBounds block of #readBinaryArray: the record with LowerBounds  *)
(* on an Offset kind, unchanged otherwise.                                 *)
ReadLowerBounds(buf, pos, shape) ==
    IF IsOffsetArray(shape.BinaryArrayTypeEnum)
    THEN Bind(ReadInt32s(buf, pos, shape.Rank, <<>>), LAMBDA bounds:
         Ok(bounds.pos, shape @@ [LowerBounds |-> bounds.val]))
    ELSE Ok(pos, shape)

readBinaryArray(buf, pos, previousRecords) ==
    Bind(readInt32(buf, pos), LAMBDA oid:
    Bind(readInt8(buf, oid.pos), LAMBDA kind:
    assert(kind.val >= 0 /\ kind.val <= 5, kind.pos,
    Bind(readInt32(buf, kind.pos), LAMBDA rank:
    assert(rank.val > 0, rank.pos,
    Bind(ReadInt32s(buf, rank.pos, rank.val, <<>>), LAMBDA lengths:
    Bind(ReadLowerBounds(buf, lengths.pos,
             [RecordTypeEnum |-> RecordTypeEnumeration.BinaryArray,
              ObjectId |-> oid.val,
              BinaryArrayTypeEnum |-> kind.val,
              Rank |-> rank.val,
              Lengths |-> lengths.val]), LAMBDA shape:
    Bind(readInt8(buf, shape.pos), LAMBDA type:
    assert((type.val >= 0 /\ type.val <= 22) /\ ~(type.val >= 18 /\ type.val <= 20),
           type.pos,
    Bind(readAdditionalInfo(buf, type.pos, type.val), LAMBDA info:
    Ok(info.pos,
       shape.val @@ [TypeEnum |-> type.val, AdditionalTypeInfo |-> info.val])))))))))))

readBinaryLibrary(buf, pos, previousRecords) ==
    Bind(readUInt32(buf, pos), LAMBDA id:
    Bind(readLengthPrefixedString(buf, id.pos), LAMBDA name:
    assert(U32Positive(id.val), name.pos,
    Ok(name.pos, [RecordTypeEnum |-> RecordTypeEnumeration.BinaryLibrary,
                  LibraryId |-> id.val,
                  LibraryName |-> name.val.v]))))

IsClassDefinition(record) ==
    record.RecordTypeEnum \in {RecordTypeEnumeration.SystemClassWithMembers,
                               RecordTypeEnumeration.SystemClassWithMembersAndTypes,
                               RecordTypeEnumeration.ClassWithMembers,
                               RecordTypeEnumeration.ClassWithMembersAndTypes}

(* The search without the comparison of ObjectId with MetadataId: the last *)
(* class-defining record, whatever its ObjectId.                           *)
RECURSIVE RelevantClassRecordAnyId(_, _, _, _)
RelevantClassRecordAnyId(previousRecords, metadataId, k, found) ==
    IF k > Len(previousRecords) THEN found
    ELSE IF ~IsClassDefinition(previousRecords[k])
    THEN RelevantClassRecordAnyId(previousRecords, metadataId, k + 1, found)
    ELSE RelevantClassRecordAnyId(previousRecords, metadataId, k + 1, k)

(* The search ended at the first record that matches: the earliest class   *)
(* record with the ObjectId in place of the latest.                        *)
RECURSIVE RelevantClassRecordFirst(_, _, _, _)
RelevantClassRecordFirst(previousRecords, metadataId, k, found) ==
    IF k > Len(previousRecords) THEN found
    ELSE IF ~IsClassDefinition(previousRecords[k])
    THEN RelevantClassRecordFirst(previousRecords, metadataId, k + 1, found)
    ELSE IF previousRecords[k].ClassInfo.ObjectId = metadataId
    THEN k
    ELSE RelevantClassRecordFirst(previousRecords, metadataId, k + 1, found)

(* The search loop of #readClassWithId: the index in previousRecords of    *)
(* relevantClassRecord, 0 while it is undefined.                           *)
RECURSIVE RelevantClassRecord(_, _, _, _)
RelevantClassRecord(previousRecords, metadataId, k, found) ==
    IF k > Len(previousRecords) THEN found
    ELSE IF ~IsClassDefinition(previousRecords[k])
    THEN RelevantClassRecord(previousRecords, metadataId, k + 1, found)
    ELSE IF previousRecords[k].ClassInfo.ObjectId = metadataId
    THEN RelevantClassRecord(previousRecords, metadataId, k + 1, k)
    ELSE RelevantClassRecord(previousRecords, metadataId, k + 1, found)

(* The tail without the assert: a record with no member values when the    *)
(* search found nothing.                                                   *)
ReadClassWithIdValuesUnasserted(buf, pos, previousRecords, relevant, record) ==
    IF relevant = 0 THEN Ok(pos, record @@ [MemberValues |-> <<>>])
    ELSE Bind(readClassMemberValues(buf, pos, previousRecords[relevant]), LAMBDA values:
         Ok(values.pos, record @@ [MemberValues |-> values.val]))

(* The tail of #readClassWithId once the search has ended at index         *)
(* relevant: the assert, then the member values by that record's schema.   *)
ReadClassWithIdValues(buf, pos, previousRecords, relevant, record) ==
    assert(relevant # 0, pos,
    Bind(readClassMemberValues(buf, pos, previousRecords[relevant]), LAMBDA values:
    Ok(values.pos, record @@ [MemberValues |-> values.val])))

readClassWithId(buf, pos, previousRecords) ==
    Bind(readInt32(buf, pos), LAMBDA oid:
    Bind(readInt32(buf, oid.pos), LAMBDA mid:
    ReadClassWithIdValues(buf, mid.pos, previousRecords,
        RelevantClassRecord(previousRecords, mid.val, 1, 0),
        [RecordTypeEnum |-> RecordTypeEnumeration.ClassWithId,
         ObjectId |-> oid.val,
         MetadataId |-> mid.val])))

(* The Values block of #readClassWithMembersAndTypes. *)
ReadOwnValues(buf, pos, record) ==
    Bind(readClassMemberValues(buf, pos, record), LAMBDA values:
    Ok(values.pos, record @@ [MemberValues |-> values.val]))

readClassWithMembersAndTypes(buf, pos, previousRecords) ==
    Bind(readClassInfo(buf, pos), LAMBDA classInfo:
    Bind(readMemberTypeInfo(buf, classInfo.pos, classInfo.val), LAMBDA memberTypeInfo:
    Bind(readUInt32(buf, memberTypeInfo.pos), LAMBDA lib:
    ReadOwnValues(buf, lib.pos,
        [RecordTypeEnum |-> RecordTypeEnumeration.ClassWithMembersAndTypes,
         ClassInfo |-> classInfo.val,
         MemberTypeInfo |-> memberTypeInfo.val,
         LibraryId |-> lib.val]))))

readMemberReference(buf, pos, previousRecords) ==
    Bind(readInt32(buf, pos), LAMBDA ref:
    assert(ref.val >= 0, ref.pos,
    Ok(ref.pos, [RecordTypeEnum |-> RecordTypeEnumeration.MemberReference,
                 IdRef |-> ref.val])))

(* #readSerializationHeader without the MinorVersion assert *)
readSerializationHeaderAnyMinor(buf, pos, previousRecords) ==
    Bind(readInt32(buf, pos), LAMBDA root:
    Bind(readInt32(buf, root.pos), LAMBDA header:
    Bind(readInt32(buf, header.pos), LAMBDA major:
    Bind(readInt32(buf, major.pos), LAMBDA minor:
    assert(major.val = 1, minor.pos,
    Ok(minor.pos, [RecordTypeEnum |-> RecordTypeEnumeration.SerializedStreamHeader,
                   RootId |-> root.val,
                   HeaderId |-> header.val,
                   MajorVersion |-> major.val,
                   MinorVersion |-> minor.val]))))))

readSerializationHeader(buf, pos, previousRecords) ==
    Bind(readInt32(buf, pos), LAMBDA root:
    Bind(readInt32(buf, root.pos), LAMBDA header:
    Bind(readInt32(buf, header.pos), LAMBDA major:
    Bind(readInt32(buf, major.pos), LAMBDA minor:
    assert(major.val = 1, minor.pos,
    assert(minor.val = 0, minor.pos,
    Ok(minor.pos, [RecordTypeEnum |-> RecordTypeEnumeration.SerializedStreamHeader,
                   RootId |-> root.val,
                   HeaderId |-> header.val,
                   MajorVersion |-> major.val,
                   MinorVersion |-> minor.val])))))))

(***************************************************************************)
(* Input buffers.  A stream is written by the encoders below from a small  *)
(* menu of records; the decoder never sees anything but the bytes.         *)
(***************************************************************************)
Int32LE(n) ==
    <<n % 256, (n \div 256) % 256, (n \div 65536) % 256, (n \div 16777216) % 256>>

EncString(units) == <<Len(units)>> \o units

RECURSIVE Flatten(_)
Flatten(seqs) == IF seqs = <<>> THEN <<>> ELSE Head(seqs) \o Flatten(Tail(seqs))

NameLib == <<76, 105, 98>>
NameC == <<67>>
NameD == <<68>>
NameE == <<69>>
NameX == <<88>>
NameY == <<89>>

EncHeader(major, minor) ==
    <<RecordTypeEnumeration.SerializedStreamHeader>>
        \o Int32LE(1) \o Int32LE(-1) \o Int32LE(major) \o Int32LE(minor)

EncLibrary(id, name) ==
    <<RecordTypeEnumeration.BinaryLibrary>> \o Int32LE(id) \o EncString(name)

EncClass(objectId, name, memberNames, typeBytes, infoBytes, libraryId, valueBytes) ==
    <<RecordTypeEnumeration.ClassWithMembersAndTypes>>
        \o Int32LE(objectId) \o EncString(name) \o Int32LE(Len(memberNames))
        \o Flatten([i \in 1..Len(memberNames) |-> EncString(memberNames[i])])
        \o typeBytes \o infoBytes \o Int32LE(libraryId) \o valueBytes

EncClassWithId(objectId, metadataId, valueBytes) ==
    <<RecordTypeEnumeration.ClassWithId>>
        \o Int32LE(objectId) \o Int32LE(metadataId) \o valueBytes

EncMemberReference(idRef) ==
    <<RecordTypeEnumeration.MemberReference>> \o Int32LE(idRef)

EncArrayInfo(objectId, length) == Int32LE(objectId) \o Int32LE(length)

(* class C { Int32 X = 42 }, ObjectId 1 *)
ClassC ==
    EncClass(1, NameC, <<NameX>>,
             <<BinaryTypeEnumeration.Primitive>>, <<PrimitiveTypeEnumeration.Int32>>,
             1, Int32LE(42))

(* class D { String X = "Lib"; C Y = reference to object 3 }, ObjectId 2 *)
ClassD ==
    EncClass(2, NameD, <<NameX, NameY>>,
             <<BinaryTypeEnumeration.String, BinaryTypeEnumeration.Class>>,
             EncString(NameC) \o Int32LE(1),
             1,
             EncString(NameLib)
                 \o <<RecordTypeEnumeration.MemberReference>> \o Int32LE(3))

(* class E { Int32[] X; Boolean Y = true }, ObjectId 1 again *)
ClassE ==
    EncClass(1, NameE, <<NameX, NameY>>,
             <<BinaryTypeEnumeration.PrimitiveArray, BinaryTypeEnumeration.Primitive>>,
             <<PrimitiveTypeEnumeration.Int32, PrimitiveTypeEnumeration.Boolean>>,
             1,
             <<1>> \o <<RecordTypeEnumeration.ArraySinglePrimitive>> \o EncArrayInfo(5, 0))

(* Instances by ClassWithId, ObjectId 3: one written for C's schema, one   *)
(* for E's, one for D's.                                                   *)
WithIdC == EncClassWithId(3, 1, Int32LE(7))
WithIdE ==
    EncClassWithId(3, 1,
        <<1>> \o <<RecordTypeEnumeration.ArraySinglePrimitive>> \o EncArrayInfo(6, 0))
WithIdD ==
    EncClassWithId(3, 2,
        EncString(NameX) \o <<RecordTypeEnumeration.MemberReference>> \o Int32LE(4))

Ref2 == EncMemberReference(2)

(* Int32[0] as a BinaryArray with a lower bound, ObjectId 4 *)
BinArr ==
    <<RecordTypeEnumeration.BinaryArray>> \o Int32LE(4)
        \o <<BinaryArrayTypeEnumeration.SingleOffset>>
        \o Int32LE(1) \o Int32LE(0) \o Int32LE(0)
        \o <<BinaryTypeEnumeration.Primitive, PrimitiveTypeEnumeration.Int32>>

(* Int32[0] as an ArraySinglePrimitive, ObjectId 5 *)
ArrPrim ==
    <<RecordTypeEnumeration.ArraySinglePrimitive>> \o EncArrayInfo(5, 0)
        \o <<PrimitiveTypeEnumeration.Int32>>

Lib == EncLibrary(1, NameLib)
End == <<RecordTypeEnumeration.MessageEnd>>
TagNotImplemented == <<RecordTypeEnumeration.BinaryObjectString>>
TagInvalid == <<23>>

Menu ==
    {Lib, ClassC, ClassD, ClassE, WithIdC, WithIdE, WithIdD, Ref2, BinArr, ArrPrim,
     TagNotImplemented, TagInvalid}

MaxRecords == 3
MaxCut == 5

(* The streams: a body of at most MaxRecords menu records, written out in  *)
(* one of these shapes.                                                    *)
Pad == <<0>>
Header10 == EncHeader(1, 0)
Header20 == EncHeader(2, 0)
Header11 == EncHeader(1, 1)

(* buf without its last c bytes *)
Cut(buf, c) == SubSeq(buf, 1, IF c >= Len(buf) THEN 0 ELSE Len(buf) - c)

Shapes ==
    {<<"complete", 0>>, <<"trailing", 0>>, <<"offset0", 0>>, <<"noheader", 0>>,
     <<"major2", 0>>, <<"minor1", 0>>}
        \cup {<<"cut", c>> : c \in 1..MaxCut}

Stream(shape, body) ==
    CASE shape[1] = "complete" -> Pad \o Header10 \o body \o End
      [] shape[1] = "trailing" -> Pad \o Header10 \o body \o End \o ClassC
      [] shape[1] = "offset0" -> Header10 \o body \o End
      [] shape[1] = "noheader" -> Pad \o body \o End
      [] shape[1] = "major2" -> Pad \o Header20 \o body \o End
      [] shape[1] = "minor1" -> Pad \o Header11 \o body \o End
      [] shape[1] = "cut" -> Cut(Pad \o Header10 \o body \o End, shape[2])

(***************************************************************************)
(* DotNetBinaryReader.read(): one action per iteration of the loop, by the *)
(* case of the switch that the tag byte selects.  status is the place of   *)
(* the call: in the loop (STREAMING), returned (DONE), thrown (FAILED).    *)
(***************************************************************************)
STREAMING == "STREAMING"
DONE == "DONE"
FAILED == "FAILED"

NotReturned == [returned |-> FALSE, value |-> <<>>]
Returned(value) == [returned |-> TRUE, value |-> value]

(* a directory without files *)
NoFiles == <<>>

(* no call of a record function followed by its statements *)
NoFrame == [pc |-> "none"]
NoFrameBySteps ==
    /\ frame = NoFrame
    /\ readLog = <<>>

(* read() called on its own: no driver loop, no readFile call *)
NothingElseRuns ==
    /\ saveDirEntries = <<>>
    /\ entryIndex = 1
    /\ dumpDir = NoFiles
    /\ fs = Null
    /\ calls = <<>>
    /\ NoFrameBySteps

Init ==
    /\ \E n \in 0..MaxRecords : \E items \in [1..n -> Menu] : \E shape \in Shapes :
           buffer = Stream(shape, Flatten(items))
    /\ position = PositionInit
    /\ records = <<>>
    /\ status = STREAMING
    /\ thrown = NoErr
    /\ result = NotReturned
    /\ NothingElseRuns

(* the exception caught inside read() and the records so far returned *)
RaiseReturningRecords(r) ==
    /\ position' = r.pos
    /\ status' = FAILED
    /\ thrown' = r.err
    /\ result' = Returned(records)
    /\ UNCHANGED <<buffer, records, driverVars, callVars, frameVars>>

(* the exception leaves read(): nothing is returned *)
Raise(r) ==
    /\ position' = r.pos
    /\ status' = FAILED
    /\ thrown' = r.err
    /\ UNCHANGED <<buffer, records, result, driverVars, callVars, frameVars>>

(* records.unshift in place of records.push *)
PushFront(r) ==
    IF r.err # NoErr THEN Raise(r)
    ELSE /\ position' = r.pos
         /\ records' = <<r.val>> \o records
         /\ UNCHANGED <<buffer, status, thrown, result, driverVars, callVars, frameVars>>

(* records.push(<record function>); break; *)
Push(r) ==
    IF r.err # NoErr THEN Raise(r)
    ELSE /\ position' = r.pos
         /\ records' = Append(records, r.val)
         /\ UNCHANGED <<buffer, status, thrown, result, driverVars, callVars, frameVars>>

recordType == readInt8(buffer, position)

Dispatch(tag) ==
    /\ status = STREAMING
    /\ recordType.err = NoErr
    /\ recordType.val = tag

ReadTagOutOfView ==
    /\ status = STREAMING
    /\ recordType.err # NoErr
    /\ Raise(recordType)

SerializedStreamHeader ==
    /\ Dispatch(RecordTypeEnumeration.SerializedStreamHeader)
    /\ Push(readSerializationHeader(buffer, recordType.pos, records))

ClassWithId ==
    /\ Dispatch(RecordTypeEnumeration.ClassWithId)
    /\ Push(readClassWithId(buffer, recordType.pos, records))

ClassWithMembersAndTypes ==
    /\ Dispatch(RecordTypeEnumeration.ClassWithMembersAndTypes)
    /\ Push(readClassWithMembersAndTypes(buffer, recordType.pos, records))

BinaryArray ==
    /\ Dispatch(RecordTypeEnumeration.BinaryArray)
    /\ Push(readBinaryArray(buffer, recordType.pos, records))

MemberReference ==
    /\ Dispatch(RecordTypeEnumeration.MemberReference)
    /\ Push(readMemberReference(buffer, recordType.pos, records))

BinaryLibrary ==
    /\ Dispatch(RecordTypeEnumeration.BinaryLibrary)
    /\ Push(readBinaryLibrary(buffer, recordType.pos, records))

ArraySinglePrimitive ==
    /\ Dispatch(RecordTypeEnumeration.ArraySinglePrimitive)
    /\ Push(readArraySinglePrimitive(buffer, recordType.pos, records))

MessageEnd ==
    /\ Dispatch(RecordTypeEnumeration.MessageEnd)
    /\ position' = recordType.pos
    /\ status' = DONE
    /\ result' = Returned(records)
    /\ UNCHANGED <<buffer, records, thrown, driverVars, callVars, frameVars>>

NotImplementedTags ==
    {RecordTypeEnumeration.SystemClassWithMembers,
     RecordTypeEnumeration.ClassWithMembers,
     RecordTypeEnumeration.SystemClassWithMembersAndTypes,
     RecordTypeEnumeration.BinaryObjectString,
     RecordTypeEnumeration.MemberPrimitiveTyped,
     RecordTypeEnumeration.ObjectNull,
     RecordTypeEnumeration.ObjectNullMultiple256,
     RecordTypeEnumeration.ObjectNullMultiple,
     RecordTypeEnumeration.ArraySingleObject,
     RecordTypeEnumeration.ArraySingleString,
     RecordTypeEnumeration.MethodCall,
     RecordTypeEnumeration.MethodReturn}

ImplementedTags ==
    {RecordTypeEnumeration.SerializedStreamHeader,
     RecordTypeEnumeration.ClassWithId,
     RecordTypeEnumeration.ClassWithMembersAndTypes,
     RecordTypeEnumeration.BinaryArray,
     RecordTypeEnumeration.MemberReference,
     RecordTypeEnumeration.MessageEnd,
     RecordTypeEnumeration.BinaryLibrary,
     RecordTypeEnumeration.ArraySinglePrimitive}

RecordTypeNotImplemented ==
    /\ status = STREAMING
    /\ recordType.err = NoErr
    /\ recordType.val \in NotImplementedTags
    /\ Raise(Throw(NotImplementedError, recordType.pos))

(* the default branch with `break` in place of the throw: the tag is skipped *)
InvalidRecordTypeSkipped ==
    /\ status = STREAMING
    /\ recordType.err = NoErr
    /\ recordType.val \notin NotImplementedTags \cup ImplementedTags
    /\ position' = recordType.pos
    /\ UNCHANGED <<buffer, records, status, thrown, result, driverVars, callVars, frameVars>>

(* the default branch goes round the loop with the tag byte put back *)
InvalidRecordTypePutBack ==
    /\ status = STREAMING
    /\ recordType.err = NoErr
    /\ recordType.val \notin NotImplementedTags \cup ImplementedTags
    /\ UNCHANGED vars

InvalidRecordType ==
    /\ status = STREAMING
    /\ recordType.err = NoErr
    /\ recordType.val \notin NotImplementedTags \cup ImplementedTags
    /\ Raise(Throw(TypeError, recordType.pos))

Next ==
    \/ ReadTagOutOfView
    \/ SerializedStreamHeader
    \/ ClassWithId
    \/ ClassWithMembersAndTypes
    \/ BinaryArray
    \/ MemberReference
    \/ BinaryLibrary
    \/ ArraySinglePrimitive
    \/ MessageEnd
    \/ RecordTypeNotImplemented
    \/ InvalidRecordType

Spec == Init /\ [][Next]_vars

(***************************************************************************)
(* Streams for the enumerated fields: records whose type bytes and IdRef   *)
(* run over legal and illegal values, read by the same read().             *)
(***************************************************************************)
MaxFieldRecords == 2

(* PrimitiveTypeEnum bytes: below the enumeration, Unused, Int32, Null,    *)
(* above the enumeration, and -1 as a signed byte.                         *)
PrimitiveTypeBytes == {0, 4, 8, 17, 19, 255}

(* an ArraySinglePrimitive record, ObjectId 5, Length 0 *)
ArrPrimOf(primitiveTypeEnum) ==
    <<RecordTypeEnumeration.ArraySinglePrimitive>> \o EncArrayInfo(5, 0)
        \o <<primitiveTypeEnum>>

(* a BinaryArray record, ObjectId 4, Single, Rank 1, Length 0 *)
BinArrOf(typeEnum, infoBytes) ==
    <<RecordTypeEnumeration.BinaryArray>> \o Int32LE(4)
        \o <<BinaryArrayTypeEnumeration.Single>>
        \o Int32LE(1) \o Int32LE(0)
        \o <<typeEnum>> \o infoBytes

(* class C { <typeByte> X }, ObjectId 1 *)
ClassOf(typeByte, infoBytes, valueBytes) ==
    EncClass(1, NameC, <<NameX>>, <<typeByte>>, infoBytes, 1, valueBytes)

FieldMenu ==
    {ArrPrimOf(b) : b \in PrimitiveTypeBytes}
        \cup {BinArrOf(BinaryTypeEnumeration.Primitive, <<b>>) : b \in {4, 8, 19}}
        \cup {BinArrOf(BinaryTypeEnumeration.PrimitiveArray, <<4>>)}
        \cup {BinArrOf(t, <<>>) : t \in {BinaryTypeEnumeration.String, 8, 18, 255}}
        \cup {ClassOf(BinaryTypeEnumeration.Primitive, <<b>>, Int32LE(42)) :
                b \in {4, 8, 19}}
        \cup {ClassOf(BinaryTypeEnumeration.PrimitiveArray, <<b>>,
                      <<RecordTypeEnumeration.ArraySinglePrimitive>>
                          \o EncArrayInfo(5, 0)) : b \in {4, 8}}
        \cup {ClassOf(BinaryTypeEnumeration.String, <<>>, EncString(NameLib))}
        \cup {ClassOf(BinaryTypeEnumeration.Class, EncString(NameC) \o Int32LE(1),
                      <<RecordTypeEnumeration.MemberReference>> \o Int32LE(3))}
        \cup {ClassOf(t, <<>>, <<>>) :
                t \in {BinaryTypeEnumeration.Object, BinaryTypeEnumeration.SystemClass,
                       BinaryTypeEnumeration.ObjectArray,
                       BinaryTypeEnumeration.StringArray, 8, 255}}
        \cup {EncMemberReference(idRef) : idRef \in {-1, 0, 2}}
        \cup {Header10, Lib, WithIdC, TagNotImplemented, TagInvalid}

FieldShapes == {<<"complete", 0>>, <<"noheader", 0>>, <<"cut", 1>>}

FieldInit ==
    /\ \E n \in 0..MaxFieldRecords : \E items \in [1..n -> FieldMenu] :
           \E shape \in FieldShapes : buffer = Stream(shape, Flatten(items))
    /\ position = PositionInit
    /\ records = <<>>
    /\ status = STREAMING
    /\ thrown = NoErr
    /\ result = NotReturned
    /\ NothingElseRuns

FieldSpec == FieldInit /\ [][Next]_vars

(***************************************************************************)
(* BinaryReader on its own: a caller that constructs a reader on a buffer  *)
(* and calls its read methods one after another.  records is the caller's  *)
(* note of the calls that returned, each with the method and the value; a  *)
(* call that throws leaves the cursor where it was (the DataView getter    *)
(* throws before `position +=`, and readString has moved it over the bytes *)
(* it did read).                                                           *)
(***************************************************************************)
MaxFields == 2
MaxReads == 2
LongLength == 128

Widths == {1, 2, 4, 8}

(* byte patterns of width w: zero, all ones, ascending from 1, ascending   *)
(* from 128, the top bit alone                                             *)
Patterns(w) ==
    {[k \in 1..w |-> 0], [k \in 1..w |-> 255], [k \in 1..w |-> k],
     [k \in 1..w |-> 127 + k], [k \in 1..w |-> IF k = w THEN 128 ELSE 0]}

LongUnits == [k \in 1..LongLength |-> 255 - (k % 7)]

StringMenu == {<<>>, <<65, 66>>, <<0, 128, 255>>, LongUnits}

ReaderBuffers ==
    UNION {{Pad \o Flatten(fields) : fields \in [1..n -> Patterns(w)]} :
             <<n, w>> \in (0..MaxFields) \X Widths}
        \cup {Pad \o EncString(a) \o EncString(b) : <<a, b>> \in StringMenu \X StringMenu}

ReaderInit ==
    /\ buffer \in ReaderBuffers
    /\ position = PositionInit
    /\ records = <<>>
    /\ status = STREAMING
    /\ thrown = NoErr
    /\ result = NotReturned
    /\ NothingElseRuns

(* the caller's call of a read method, r what the method does *)
Call(method, r) ==
    /\ Len(records) < MaxReads
    /\ position' = r.pos
    /\ thrown' = r.err
    /\ IF r.err = NoErr
       THEN /\ result' = Returned(r.val)
            /\ records' = Append(records, [method |-> method, value |-> r.val])
       ELSE /\ result' = NotReturned
            /\ UNCHANGED records
    /\ UNCHANGED <<buffer, status, driverVars, callVars, frameVars>>

CallReadInt8 == Call("readInt8", readInt8(buffer, position))
CallReadInt16 == Call("readInt16", readInt16(buffer, position))
CallReadInt32 == Call("readInt32", readInt32(buffer, position))
CallReadInt64 == Call("readInt64", readInt64(buffer, position))
CallReadUInt8 == Call("readUInt8", readUInt8(buffer, position))
CallReadUInt16 == Call("readUInt16", readUInt16(buffer, position))
CallReadUInt32 == Call("readUInt32", readUInt32(buffer, position))
CallReadUInt64 == Call("readUInt64", readUInt64(buffer, position))
CallReadFloat32 == Call("readFloat32", readFloat32(buffer, position))
CallReadFloat64 == Call("readFloat64", readFloat64(buffer, position))
CallReadString == Call("readString", readString(buffer, position))
CallReadLengthPrefixedString ==
    Call("readLengthPrefixedString", readLengthPrefixedString(buffer, position))

ReaderNext ==
    \/ CallReadInt8
    \/ CallReadInt16
    \/ CallReadInt32
    \/ CallReadInt64
    \/ CallReadUInt8
    \/ CallReadUInt16
    \/ CallReadUInt32
    \/ CallReadUInt64
    \/ CallReadFloat32
    \/ CallReadFloat64
    \/ CallReadString
    \/ CallReadLengthPrefixedString

ReaderSpec == ReaderInit /\ [][ReaderNext]_vars

(***************************************************************************)
(* read() as one step: the loop run to its return or its throw.  A call of *)
(* read() has no await in it, so inside readFile and the batch driver it   *)
(* runs from start to end without anything else running in between.        *)
(***************************************************************************)

(* the switch of read() for a tag other than MessageEnd *)
ReadRecord(buf, pos, tag, previousRecords) ==
    CASE tag = RecordTypeEnumeration.SerializedStreamHeader ->
           readSerializationHeader(buf, pos, previousRecords)
      [] tag = RecordTypeEnumeration.ClassWithId ->
           readClassWithId(buf, pos, previousRecords)
      [] tag = RecordTypeEnumeration.ClassWithMembersAndTypes ->
           readClassWithMembersAndTypes(buf, pos, previousRecords)
      [] tag = RecordTypeEnumeration.BinaryArray ->
           readBinaryArray(buf, pos, previousRecords)
      [] tag = RecordTypeEnumeration.MemberReference ->
           readMemberReference(buf, pos, previousRecords)
      [] tag = RecordTypeEnumeration.BinaryLibrary ->
           readBinaryLibrary(buf, pos, previousRecords)
      [] tag = RecordTypeEnumeration.ArraySinglePrimitive ->
           readArraySinglePrimitive(buf, pos, previousRecords)
      [] tag \in NotImplementedTags -> Throw(NotImplementedError, pos)
      [] OTHER -> Throw(TypeError, pos)

(* the while(true) loop of read() from cursor pos with the records so far *)
RECURSIVE ReadLoop(_, _, _)
ReadLoop(buf, pos, previousRecords) ==
    Bind(readInt8(buf, pos), LAMBDA tag:
    IF tag.val = RecordTypeEnumeration.MessageEnd THEN Ok(tag.pos, previousRecords)
    ELSE Bind(ReadRecord(buf, tag.pos, tag.val, previousRecords), LAMBDA record:
         ReadLoop(buf, record.pos, Append(previousRecords, record.val))))

(* new DotNetBinaryReader(arrayBuffer).read() *)
read(arrayBuffer) == ReadLoop(arrayBuffer, PositionInit, <<>>)

(* The run of read() by its steps ends as read() in one step does. *)
ReadAgreesWithSteps ==
    /\ status = DONE => read(buffer) = Ok(position, result.value)
    /\ status = FAILED => read(buffer) = Throw(thrown, position)

(***************************************************************************)
(* BigInt.prototype.toString(): the decimal digits of a 64-bit value kept  *)
(* as four 16-bit limbs, least significant first.                          *)
(***************************************************************************)
IsNegative(value) == value.signed /\ value.limbs[4] >= 32768

(* limbs + 1 from limb k on, modulo 2^64 *)
RECURSIVE Increment(_, _)
Increment(limbs, k) ==
    IF k > Len(limbs) THEN limbs
    ELSE IF limbs[k] < 65535 THEN [limbs EXCEPT ![k] = @ + 1]
    ELSE Increment([limbs EXCEPT ![k] = 0], k + 1)

(* the absolute value: the two's complement of a negative value *)
Magnitude(value) ==
    IF IsNegative(value)
    THEN Increment([k \in 1..4 |-> 65535 - value.limbs[k]], 1)
    ELSE value.limbs

(* limbs divided by 10 from limb k down, with remainder rem carried in:    *)
(* the quotient's limbs and the remainder                                  *)
RECURSIVE DivideByTen(_, _, _)
DivideByTen(limbs, k, rem) ==
    IF k = 0 THEN [quotient |-> limbs, remainder |-> rem]
    ELSE DivideByTen([limbs EXCEPT ![k] = (rem * 65536 + @) \div 10], k - 1,
                     (rem * 65536 + limbs[k]) % 10)

IsZero(limbs) == \A k \in 1..Len(limbs) : limbs[k] = 0

(* the digits of a magnitude, as character codes, most significant first *)
RECURSIVE DigitsOf(_, _)
DigitsOf(limbs, digits) ==
    IF IsZero(limbs) THEN (IF digits = <<>> THEN <<48>> ELSE digits)
    ELSE DigitsOf(DivideByTen(limbs, 4, 0).quotient,
                  <<48 + DivideByTen(limbs, 4, 0).remainder>> \o digits)

toString(value) ==
    (IF IsNegative(value) THEN <<45>> ELSE <<>>) \o DigitsOf(Magnitude(value), <<>>)

(***************************************************************************)
(* JSON.stringify(data, replacer, "\t") of the batch driver.  The document *)
(* written is kept as the log with each member value replaced by the token *)
(* written for it; the other fields of a record are numbers, strings and   *)
(* arrays and objects of them, which the replacer returns as they are.     *)
(***************************************************************************)

(* Number(value) in place of value.toString(): a numeric literal *)
replacerToNumber(key, value) ==
    IF value.t = "bigint" THEN [t |-> "number", big |-> value.limbs] ELSE value

(* (key, value) => typeof(value) == "bigint" ? value.toString() : value *)
replacer(key, value) ==
    IF value.t = "bigint" THEN Str(toString(value)) ELSE value

(* NaN and the infinities: all exponent bits set *)
IsFinite(float) ==
    IF Len(float.bits) = 2 THEN (float.bits[2] \div 128) % 256 # 255
    ELSE (float.bits[4] \div 16) % 2048 # 2047

(* the token JSON.stringify writes for the value the replacer returned *)
Token(value) ==
    CASE value.t = "string" -> [token |-> "string", text |-> value.v]
      [] value.t = "number" -> [token |-> "number", number |-> value]
      [] value.t = "float" ->
           IF IsFinite(value) THEN [token |-> "number", number |-> value]
           ELSE [token |-> "null"]
      [] value.t = "boolean" -> [token |-> IF value.v THEN "true" ELSE "false"]
      [] value.t = "object" -> [token |-> "object", members |-> value]
      [] OTHER -> [token |-> "null"]

MemberTokens(memberValues) ==
    [m \in 1..Len(memberValues) |-> Token(replacer(m, memberValues[m]))]

RenderRecord(record) ==
    IF "MemberValues" \in DOMAIN record
    THEN [record EXCEPT !.MemberValues = MemberTokens(record.MemberValues)]
    ELSE record

(* JSON.stringify throws TypeError on a BigInt that the replacer left *)
LeavesBigInt(record) ==
    /\ "MemberValues" \in DOMAIN record
    /\ \E m \in 1..Len(record.MemberValues) :
           replacer(m, record.MemberValues[m]).t = "bigint"

(* JSON.stringify of what read() returned *)
JSONStringify(data) ==
    IF \E i \in 1..Len(data.val) : LeavesBigInt(data.val[i])
    THEN Throw(TypeError, data.pos)
    ELSE Ok(data.pos, [i \in 1..Len(data.val) |-> RenderRecord(data.val[i])])

(***************************************************************************)
(* The batch driver: the entries of the save directory whose name ends in  *)
(* ".dat" and is not "versionCheck.dat", one after another; a file is read *)
(* and its JSON written, inside try/catch; a directory is skipped.         *)
(***************************************************************************)
MaxEntries == 3

DotDat == <<".", "d", "a", "t">>
DotJson == <<".", "j", "s", "o", "n">>
VersionCheckDat == <<"v", "e", "r", "s", "i", "o", "n", "C", "h", "e", "c", "k">> \o DotDat

endsWith(name, suffix) ==
    /\ Len(name) >= Len(suffix)
    /\ SubSeq(name, Len(name) - Len(suffix) + 1, Len(name)) = suffix

(* the filter on the readdirSync result *)
Eligible(dirent) == endsWith(dirent.name, DotDat) /\ dirent.name # VersionCheckDat

(* a Dirent: isFile(), isDirectory(), or neither (a link, a socket) *)
IsFile == "file"
IsDirectory == "directory"
IsOther == "other"
Dirent(name, kind, data) == [name |-> name, kind |-> kind, data |-> data]

(* class C { Int64 X = 2^53 + 1; UInt64 Y = 2^64 - 1; TimeSpan Z = -1;      *)
(*           DateTime W = -2^63; Int32 V = 42 }                            *)
Class64 ==
    EncClass(1, NameC, <<NameX, NameY, <<90>>, <<87>>, <<86>>>>,
             <<0, 0, 0, 0, 0>>,
             <<PrimitiveTypeEnumeration.Int64, PrimitiveTypeEnumeration.UInt64,
               PrimitiveTypeEnumeration.TimeSpan, PrimitiveTypeEnumeration.DateTime,
               PrimitiveTypeEnumeration.Int32>>,
             1,
             <<1, 0, 0, 0, 0, 0, 32, 0>>
                 \o <<255, 255, 255, 255, 255, 255, 255, 255>>
                 \o <<255, 255, 255, 255, 255, 255, 255, 255>>
                 \o <<0, 0, 0, 0, 0, 0, 0, 128>>
                 \o Int32LE(42))

(* class C { Double X = NaN; Double Y = 1.0; Boolean Z = true; Int64 W = 0 } *)
ClassFloat ==
    EncClass(1, NameC, <<NameX, NameY, <<90>>, <<87>>>>,
             <<0, 0, 0, 0>>,
             <<PrimitiveTypeEnumeration.Double, PrimitiveTypeEnumeration.Double,
               PrimitiveTypeEnumeration.Boolean, PrimitiveTypeEnumeration.Int64>>,
             1,
             <<0, 0, 0, 0, 0, 0, 248, 127>> \o <<0, 0, 0, 0, 0, 0, 240, 63>> \o <<1>>
                 \o <<0, 0, 0, 0, 0, 0, 0, 0>>)

FileContents ==
    {Pad \o Header10 \o Lib \o Class64 \o End,
     Pad \o Header10 \o ClassD \o ClassFloat \o End,
     Pad \o Header10 \o Lib \o TagInvalid \o End,
     Pad \o Header10 \o Class64}

NameADat == <<"a">> \o DotDat
NameBDat == <<"b">> \o DotDat

DirentMenu ==
    {Dirent(name, IsFile, data) : name \in {NameADat, NameBDat}, data \in FileContents}
        \cup {Dirent(VersionCheckDat, IsFile, Pad \o Header10 \o End),
              Dirent(<<"a", ".", "t", "x", "t">>, IsFile, <<>>),
              Dirent(<<"d">> \o DotDat, IsDirectory, <<>>),
              Dirent(<<"l">> \o DotDat, IsOther, <<>>)}

(* a file left in _JSON_DUMP by an earlier run *)
StaleJSON == <<>>

(* no run of read() by its steps: the driver's and readFile's reads are    *)
(* each made on a reader of their own                                      *)
NoReadBySteps ==
    /\ buffer = <<>>
    /\ position = PositionInit
    /\ records = <<>>
    /\ status = STREAMING
    /\ thrown = NoErr
    /\ result = NotReturned
    /\ NoFrameBySteps

readVars == <<buffer, position, records, status, thrown, result, frame, readLog>>

NodeFs == [t |-> "module", name |-> "node:fs"]

(* after readdirSync(...).filter(...) and mkdirSync(dumpDir, recursive) *)
DriverInit ==
    /\ \E n \in 0..MaxEntries : \E listing \in [1..n -> DirentMenu] :
           /\ \A i \in 1..n : \A j \in 1..n : listing[i].name = listing[j].name => i = j
           /\ saveDirEntries = SelectSeq(listing, Eligible)
    /\ entryIndex = 1
    /\ dumpDir \in {NoFiles, (NameADat \o DotJson) :> StaleJSON}
    /\ fs = Null
    /\ calls = <<>>
    /\ NoReadBySteps

AtEntry == entryIndex \in 1..Len(saveDirEntries)
entry == saveDirEntries[entryIndex]

(* await DotNetBinaryReader.readFile(...) and JSON.stringify of its result *)
Dump(dirent) == Bind(read(dirent.data), JSONStringify)

(* the exception leaves the loop: no later entry is looked at *)
CatchErrorRethrown ==
    /\ AtEntry
    /\ entry.kind = IsFile
    /\ Dump(entry).err # NoErr
    /\ entryIndex' = Len(saveDirEntries) + 1
    /\ fs' = NodeFs
    /\ UNCHANGED <<saveDirEntries, dumpDir, calls, readVars>>

(* try { readFile; writeFileSync(entry.name + ".json", JSON.stringify) } *)
WriteJson ==
    /\ AtEntry
    /\ entry.kind = IsFile
    /\ Dump(entry).err = NoErr
    /\ dumpDir' = ((entry.name \o DotJson) :> Dump(entry).val) @@ dumpDir
    /\ entryIndex' = entryIndex + 1
    /\ fs' = NodeFs
    /\ UNCHANGED <<saveDirEntries, calls, readVars>>

(* catch(error) { console.log(error); } *)
CatchError ==
    /\ AtEntry
    /\ entry.kind = IsFile
    /\ Dump(entry).err # NoErr
    /\ entryIndex' = entryIndex + 1
    /\ fs' = NodeFs
    /\ UNCHANGED <<saveDirEntries, dumpDir, calls, readVars>>

(* else if (entry.isDirectory()) { console.log("SKIPPING DIRECTORY ...") } *)
SkipDirectory ==
    /\ AtEntry
    /\ entry.kind = IsDirectory
    /\ entryIndex' = entryIndex + 1
    /\ UNCHANGED <<saveDirEntries, dumpDir, fs, calls, readVars>>

(* neither a file nor a directory: no branch runs *)
SkipOther ==
    /\ AtEntry
    /\ entry.kind \notin {IsFile, IsDirectory}
    /\ entryIndex' = entryIndex + 1
    /\ UNCHANGED <<saveDirEntries, dumpDir, fs, calls, readVars>>

DriverNext ==
    \/ WriteJson
    \/ CatchError
    \/ SkipDirectory
    \/ SkipOther

DriverSpec == DriverInit /\ [][DriverNext]_vars

(***************************************************************************)
(* DotNetBinaryReader.readFile called several times without awaiting: each *)
(* call runs to its next await and is resumed when the awaited promise     *)
(* settles, in any order.  A call's record holds the file at its path, the *)
(* reader it constructed and how its promise settled.                      *)
(***************************************************************************)
MaxCalls == 2

NotCalled(file) ==
    [pc |-> "notCalled", file |-> file, imported |-> FALSE,
     reader |-> Null, outcome |-> Undefined]

CallInit ==
    /\ calls \in [1..MaxCalls -> {NotCalled(file) : file \in FileContents}]
    /\ fs = Null
    /\ saveDirEntries = <<>>
    /\ entryIndex = 1
    /\ dumpDir = NoFiles
    /\ NoReadBySteps

(* position as a static field: the reader starts where the reader of a     *)
(* call settled before it stopped                                          *)
NewReaderSharedCursor(cs, i) ==
    IF \E j \in DOMAIN cs : cs[j].pc = "settled"
    THEN [view |-> cs[i].file,
          position |-> cs[CHOOSE j \in DOMAIN cs : cs[j].pc = "settled"].reader.position]
    ELSE [view |-> cs[i].file, position |-> PositionInit]

(* new DotNetBinaryReader(new Uint8Array(nodeBuffer).buffer): a view on a  *)
(* copy of the file's bytes and a cursor of its own                        *)
NewReader(cs, i) == [view |-> cs[i].file, position |-> PositionInit]

(* readFile(path) up to its first await: of import("node:fs") when #fs is  *)
(* null, of fs.promises.readFile(path) otherwise                           *)
readFile(i) ==
    /\ calls[i].pc = "notCalled"
    /\ calls' = [calls EXCEPT ![i].pc = IF fs = Null THEN "awaitImport"
                                        ELSE "awaitReadFile",
                              ![i].imported = (fs = Null)]
    /\ UNCHANGED <<fs, driverVars, readVars>>

(* DotNetBinaryReader.#fs = await import("node:fs"), then up to the await  *)
(* of fs.promises.readFile(path)                                           *)
ImportResolved(i) ==
    /\ calls[i].pc = "awaitImport"
    /\ fs' = NodeFs
    /\ calls' = [calls EXCEPT ![i].pc = "awaitReadFile"]
    /\ UNCHANGED <<driverVars, readVars>>

(* nodeBuffer = await fs.promises.readFile(path), then the reader and its  *)
(* read() to the end: the promise of readFile settles                      *)
ReadFileResolved(i) ==
    /\ calls[i].pc = "awaitReadFile"
    /\ calls' = [calls EXCEPT
                   ![i].pc = "settled",
                   ![i].outcome = ReadLoop(NewReader(calls, i).view,
                                           NewReader(calls, i).position, <<>>),
                   ![i].reader = [view |-> NewReader(calls, i).view,
                                  position |-> ReadLoop(NewReader(calls, i).view,
                                                        NewReader(calls, i).position,
                                                        <<>>).pos]]
    /\ UNCHANGED <<fs, driverVars, readVars>>

CallNext ==
    \/ \E i \in DOMAIN calls : readFile(i)
    \/ \E i \in DOMAIN calls : ImportResolved(i)
    \/ \E i \in DOMAIN calls : ReadFileResolved(i)

CallSpec == CallInit /\ [][CallNext]_vars

(***************************************************************************)
(* #readClassWithMembersAndTypes statement by statement, on a buffer that  *)
(* holds one such record: the cursor starts behind the tag byte.  A class  *)
(* is written from a menu of members; each gives its type byte, the bytes  *)
(* of its AdditionalInfo, the bytes of its value and, for an array member, *)
(* the bytes that follow all the values.                                   *)
(***************************************************************************)
MaxMembers == 2

Member(type, info, value, array) ==
    [type |-> type, info |-> info, value |-> value, array |-> array]

PrimitiveMember(primitiveTypeEnum, value) ==
    Member(BinaryTypeEnumeration.Primitive, <<primitiveTypeEnum>>, value, <<>>)

(* a member whose value is the nested array record ObjectId, Length *)
PrimitiveArrayMember(tag, objectId, length) ==
    Member(BinaryTypeEnumeration.PrimitiveArray, <<PrimitiveTypeEnumeration.Int32>>,
           <<>>, <<tag>> \o EncArrayInfo(objectId, length))

MinInt64Bytes == <<0, 0, 0, 0, 0, 0, 0, 128>>
MinusOneBytes == <<255, 255, 255, 255, 255, 255, 255, 255>>
DecimalText == <<49, 46, 53>>

MemberMenu ==
    {PrimitiveMember(PrimitiveTypeEnumeration.Boolean, <<b>>) : b \in {0, 2, 255}}
        \cup {PrimitiveMember(PrimitiveTypeEnumeration.Char, <<b>>) : b \in {65, 233}}
        \cup {PrimitiveMember(PrimitiveTypeEnumeration.Decimal, EncString(DecimalText)),
              PrimitiveMember(PrimitiveTypeEnumeration.TimeSpan, MinusOneBytes),
              PrimitiveMember(PrimitiveTypeEnumeration.DateTime, MinInt64Bytes),
              PrimitiveMember(PrimitiveTypeEnumeration.Unused, <<>>)}
        \cup {Member(BinaryTypeEnumeration.String, <<>>, EncString(NameLib), <<>>),
              Member(BinaryTypeEnumeration.Object, <<>>, <<>>, <<>>),
              Member(BinaryTypeEnumeration.SystemClass, <<>>, <<>>, <<>>),
              Member(BinaryTypeEnumeration.ObjectArray, <<>>, <<>>, <<>>),
              Member(BinaryTypeEnumeration.StringArray, <<>>, <<>>, <<>>),
              Member(8, <<>>, <<>>, <<>>)}
        \cup {Member(BinaryTypeEnumeration.Class, EncString(NameC) \o Int32LE(1),
                     <<tag>> \o Int32LE(3), <<>>) :
                tag \in {RecordTypeEnumeration.MemberReference,
                         RecordTypeEnumeration.ClassWithMembersAndTypes}}
        \cup {PrimitiveArrayMember(RecordTypeEnumeration.ArraySinglePrimitive, 5, 2),
              PrimitiveArrayMember(RecordTypeEnumeration.ArraySinglePrimitive, 0, 2),
              PrimitiveArrayMember(RecordTypeEnumeration.ArraySinglePrimitive, 5, -1)}

(* class C with these members, all named X, ObjectId 1 *)
EncClassOf(members) ==
    EncClass(1, NameC, [i \in 1..Len(members) |-> NameX],
             Flatten([i \in 1..Len(members) |-> <<members[i].type>>]),
             Flatten([i \in 1..Len(members) |-> members[i].info]),
             1,
             Flatten([i \in 1..Len(members) |-> members[i].value])
                 \o Flatten([i \in 1..Len(members) |-> members[i].array]))

(* the record whole with the terminator behind it, or cut short *)
Truncations == {0, 2}

Called ==
    [pc |-> "ClassInfo", i |-> 1,
     record |-> [RecordTypeEnum |-> RecordTypeEnumeration.ClassWithMembersAndTypes],
     memberTypeInfo |-> [BinaryTypeEnums |-> <<>>, AdditionalInfos |-> <<>>],
     memberValues |-> <<>>]

ClassInit ==
    /\ \E n \in 0..MaxMembers : \E members \in [1..n -> MemberMenu] :
         \E c \in Truncations : buffer = Cut(EncClassOf(members) \o End, c)
    /\ position = PositionInit
    /\ records = <<>>
    /\ status = STREAMING
    /\ thrown = NoErr
    /\ result = NotReturned
    /\ saveDirEntries = <<>>
    /\ entryIndex = 1
    /\ dumpDir = NoFiles
    /\ fs = Null
    /\ calls = <<>>
    /\ frame = Called
    /\ readLog = <<>>

(* the loop a statement leads to: a loop over the members is passed over   *)
(* when MemberCount is 0                                                   *)
Enter(loop, memberCount) ==
    IF memberCount > 0 THEN loop
    ELSE IF loop \in {"BinaryTypeEnums", "AdditionalInfos"} THEN "LibraryId"
    ELSE "return"

(* i++ and the test i < MemberCount at the end of a pass of a loop *)
Advance(f, nextLoop) ==
    IF f.i < f.record.ClassInfo.MemberCount THEN [f EXCEPT !.i = @ + 1]
    ELSE [f EXCEPT !.pc = Enter(nextLoop, f.record.ClassInfo.MemberCount), !.i = 1]

(* the statement throws: the call is left *)
Thrown(r) ==
    /\ position' = r.pos
    /\ thrown' = r.err
    /\ frame' = [frame EXCEPT !.pc = "thrown"]
    /\ UNCHANGED <<buffer, records, status, result, readLog, driverVars, callVars>>

(* a statement that reads r and goes on in the frame next *)
Reads(what, r, next) ==
    IF r.err # NoErr THEN Thrown(r)
    ELSE /\ position' = r.pos
         /\ readLog' = Append(readLog, [what |-> what, member |-> frame.i,
                                        from |-> position, to |-> r.pos,
                                        value |-> r.val])
         /\ frame' = next
         /\ UNCHANGED <<buffer, records, status, thrown, result, driverVars, callVars>>

(* record.ClassInfo = this.#readClassInfo() *)
ReadClassInfo ==
    /\ frame.pc = "ClassInfo"
    /\ Reads("ClassInfo", readClassInfo(buffer, position),
             [frame EXCEPT
                !.record = @ @@ [ClassInfo |-> readClassInfo(buffer, position).val],
                !.pc = Enter("BinaryTypeEnums",
                             readClassInfo(buffer, position).val.MemberCount)])

(* one loop in place of two: the type byte and at once its AdditionalInfo *)
PushBinaryTypeEnumWithInfo ==
    /\ frame.pc = "BinaryTypeEnums"
    /\ Reads("AdditionalInfo",
             Bind(readUInt8(buffer, position), LAMBDA type:
                  readAdditionalInfo(buffer, type.pos, type.val)),
             Advance([frame EXCEPT
                        !.memberTypeInfo.BinaryTypeEnums =
                            Append(@, readUInt8(buffer, position).val),
                        !.memberTypeInfo.AdditionalInfos =
                            Append(@, readAdditionalInfo(buffer, position + 1,
                                          readUInt8(buffer, position).val).val)],
                     "LibraryId"))

(* memberTypeInfo.BinaryTypeEnums.push(this.readUInt8()) *)
PushBinaryTypeEnum ==
    /\ frame.pc = "BinaryTypeEnums"
    /\ Reads("BinaryTypeEnum", readUInt8(buffer, position),
             Advance([frame EXCEPT !.memberTypeInfo.BinaryTypeEnums =
                                       Append(@, readUInt8(buffer, position).val)],
                     "AdditionalInfos"))

memberType == frame.memberTypeInfo.BinaryTypeEnums[frame.i]
memberInfo == frame.memberTypeInfo.AdditionalInfos[frame.i]

(* memberTypeInfo.AdditionalInfos.push(this.#readAdditionalInfo(...)) *)
PushAdditionalInfo ==
    /\ frame.pc = "AdditionalInfos"
    /\ Reads("AdditionalInfo", readAdditionalInfo(buffer, position, memberType),
             Advance([frame EXCEPT !.memberTypeInfo.AdditionalInfos =
                          Append(@, readAdditionalInfo(buffer, position,
                                                       memberType).val)],
                     "LibraryId"))

(* record.MemberTypeInfo = the structure returned; record.LibraryId =      *)
(* this.readUInt32()                                                       *)
ReadLibraryId ==
    /\ frame.pc = "LibraryId"
    /\ Reads("LibraryId", readUInt32(buffer, position),
             [frame EXCEPT
                !.record = @ @@ [MemberTypeInfo |-> frame.memberTypeInfo,
                                 LibraryId |-> readUInt32(buffer, position).val],
                !.pc = Enter("MemberValues", frame.record.ClassInfo.MemberCount),
                !.i = 1])

(* one pass of the first loop of #readClassMemberValues *)
AssignMemberValue ==
    /\ frame.pc = "MemberValues"
    /\ Reads("MemberValue",
             ReadMemberValue(buffer, position, memberType, memberInfo),
             Advance([frame EXCEPT !.memberValues =
                          IF ReadMemberValue(buffer, position, memberType,
                                             memberInfo).val = NoValue
                          THEN @
                          ELSE SetIndex(@, frame.i,
                                        ReadMemberValue(buffer, position, memberType,
                                                        memberInfo).val)],
                     "PrimitiveArrays"))

(* one pass of the second loop: continue *)
ContinueNotPrimitiveArray ==
    /\ frame.pc = "PrimitiveArrays"
    /\ memberType # BinaryTypeEnumeration.PrimitiveArray
    /\ frame' = Advance(frame, "return")
    /\ UNCHANGED <<buffer, position, records, status, thrown, result, readLog,
                   driverVars, callVars>>

(* one pass of the second loop: const _ = this.readInt8(); const arrayInfo *)
(* = this.#readArrayInfo()                                                 *)
ReadPrimitiveArrayInfo ==
    /\ frame.pc = "PrimitiveArrays"
    /\ memberType = BinaryTypeEnumeration.PrimitiveArray
    /\ Reads("ArrayInfo",
             Bind(readInt8(buffer, position), LAMBDA tag:
             Bind(readArrayInfo(buffer, tag.pos), LAMBDA arrayInfo:
             Ok(arrayInfo.pos, [tag |-> tag.val, ArrayInfo |-> arrayInfo.val]))),
             Advance(frame, "return"))

(* record.MemberValues = memberValues; return record *)
ReturnRecord ==
    /\ frame.pc = "return"
    /\ frame' = [frame EXCEPT !.pc = "returned"]
    /\ result' = Returned(frame.record @@ [MemberValues |-> frame.memberValues])
    /\ UNCHANGED <<buffer, position, records, status, thrown, readLog,
                   driverVars, callVars>>

ClassNext ==
    \/ ReadClassInfo
    \/ PushBinaryTypeEnum
    \/ PushAdditionalInfo
    \/ ReadLibraryId
    \/ AssignMemberValue
    \/ ContinueNotPrimitiveArray
    \/ ReadPrimitiveArrayInfo
    \/ ReturnRecord

ClassSpec == ClassInit /\ [][ClassNext]_vars

(* The call followed statement by statement ends as the call in one step.  *)
StatementsAgreeWithCall ==
    /\ frame.pc = "returned" =>
         readClassWithMembersAndTypes(buffer, PositionInit, <<>>)
             = Ok(position, result.value)
    /\ frame.pc = "thrown" =>
         readClassWithMembersAndTypes(buffer, PositionInit, <<>>)
             = Throw(thrown, position)

(***************************************************************************)
(* Streams of array records: every kind of BinaryArray, ranks inside and   *)
(* outside what is accepted, arrays that declare elements and carry them,  *)
(* read by the same read().                                                *)
(***************************************************************************)
MaxArrayRecords == 2

EncInt32s(ints) == Flatten([k \in 1..Len(ints) |-> Int32LE(ints[k])])

(* a BinaryArray record, ObjectId 4: ints are the Lengths and, for an      *)
(* Offset kind, the LowerBounds                                            *)
EncBinaryArray(kind, rank, ints, typeBytes) ==
    <<RecordTypeEnumeration.BinaryArray>> \o Int32LE(4) \o <<kind>> \o Int32LE(rank)
        \o EncInt32s(ints) \o typeBytes

ElementInt32 == <<BinaryTypeEnumeration.Primitive, PrimitiveTypeEnumeration.Int32>>
ElementString == <<BinaryTypeEnumeration.String>>
ElementClass == <<BinaryTypeEnumeration.Class>> \o EncString(NameC) \o Int32LE(1)

(* two Int32 elements; the first begins with the byte of MessageEnd *)
Elements == Int32LE(RecordTypeEnumeration.MessageEnd) \o Int32LE(7)

ArrayMenu ==
    {EncBinaryArray(kind, 1, <<2>>, ElementInt32) : kind \in {0, 1, 2, 6, 255}}
        \cup {EncBinaryArray(kind, 1, <<2, -3>>, ElementInt32) : kind \in {3, 4, 5}}
        \cup {EncBinaryArray(BinaryArrayTypeEnumeration.Rectangular, 2, <<2, 3>>,
                             ElementString),
              EncBinaryArray(BinaryArrayTypeEnumeration.RectangularOffset, 2,
                             <<2, 3, -1, 1>>, ElementClass),
              EncBinaryArray(BinaryArrayTypeEnumeration.Single, 0, <<>>, ElementInt32),
              EncBinaryArray(BinaryArrayTypeEnumeration.Single, -1, <<>>, ElementInt32),
              EncBinaryArray(BinaryArrayTypeEnumeration.Single, 1, <<2>>, <<18>>),
              EncBinaryArray(BinaryArrayTypeEnumeration.Single, 1, <<2>>, ElementInt32)
                  \o Elements}
        \cup {<<RecordTypeEnumeration.ArraySinglePrimitive>> \o EncArrayInfo(5, 0)
                  \o <<PrimitiveTypeEnumeration.Int32>>,
              <<RecordTypeEnumeration.ArraySinglePrimitive>> \o EncArrayInfo(5, 2)
                  \o <<PrimitiveTypeEnumeration.Int32>> \o Elements,
              <<RecordTypeEnumeration.ArraySinglePrimitive>> \o EncArrayInfo(5, 3)
                  \o <<PrimitiveTypeEnumeration.Byte>>}
        \cup {Lib, ClassC, WithIdC, Ref2, TagNotImplemented, TagInvalid}

ArrayShapes == {<<"complete", 0>>, <<"cut", 1>>}

ArrayInit ==
    /\ \E n \in 0..MaxArrayRecords : \E items \in [1..n -> ArrayMenu] :
           \E shape \in ArrayShapes : buffer = Stream(shape, Flatten(items))
    /\ position = PositionInit
    /\ records = <<>>
    /\ status = STREAMING
    /\ thrown = NoErr
    /\ result = NotReturned
    /\ NothingElseRuns

ArraySpec == ArrayInit /\ [][Next]_vars

(***************************************************************************)
(* Streams for the schema of a ClassWithId: two classes with ObjectId 1,   *)
(* a class with ObjectId 2, and records of the other kinds that carry the  *)
(* id 2, read by the same read().                                          *)
(***************************************************************************)
MaxSchemaRecords == 3

(* an instance with ObjectId 2 of the class with ObjectId 1, one Int32 *)
WithId2 == EncClassWithId(2, 1, Int32LE(7))

(* Int32[0] as a BinaryArray and as an ArraySinglePrimitive, ObjectId 2 *)
BinArr2 ==
    <<RecordTypeEnumeration.BinaryArray>> \o Int32LE(2)
        \o <<BinaryArrayTypeEnumeration.Single>> \o Int32LE(1) \o Int32LE(0)
        \o <<BinaryTypeEnumeration.Primitive, PrimitiveTypeEnumeration.Int32>>
ArrPrim2 ==
    <<RecordTypeEnumeration.ArraySinglePrimitive>> \o EncArrayInfo(2, 0)
        \o <<PrimitiveTypeEnumeration.Int32>>

SchemaMenu ==
    {ClassC, ClassE, ClassD, WithIdC, WithIdE, WithIdD, WithId2, BinArr2, ArrPrim2,
     Ref2, Lib, TagNotImplemented, TagInvalid}

SchemaShapes == {<<"complete", 0>>, <<"cut", 1>>}

SchemaInit ==
    /\ \E n \in 0..MaxSchemaRecords : \E items \in [1..n -> SchemaMenu] :
           \E shape \in SchemaShapes : buffer = Stream(shape, Flatten(items))
    /\ position = PositionInit
    /\ records = <<>>
    /\ status = STREAMING
    /\ thrown = NoErr
    /\ result = NotReturned
    /\ NothingElseRuns

SchemaSpec == SchemaInit /\ [][Next]_vars

(***************************************************************************)
(* read() run to its end: streams whose records declare counts far beyond  *)
(* the bytes that follow, counts of members that take no byte, and counts  *)
(* below 0.  The loop of read() is a running program: it takes its next    *)
(* step whenever it has one.                                               *)
(***************************************************************************)
MaxCountRecords == 2
MaxInt32 == 2^30 - 1 + 2^30

(* a class record cut off behind its MemberCount and these bytes *)
ClassDeclaring(memberCount, bytes) ==
    <<RecordTypeEnumeration.ClassWithMembersAndTypes>>
        \o Int32LE(1) \o EncString(NameC) \o Int32LE(memberCount) \o bytes

(* class C with three String members with empty names and empty values:    *)
(* its AdditionalInfo loop takes no byte                                   *)
ClassOfEmptyStrings ==
    ClassDeclaring(3, <<0, 0, 0>>
        \o <<BinaryTypeEnumeration.String, BinaryTypeEnumeration.String,
             BinaryTypeEnumeration.String>>
        \o Int32LE(1) \o <<0, 0, 0>>)

(* class C with three PrimitiveArray members: its first loop over the      *)
(* member values takes no byte                                             *)
ClassOfArrays ==
    ClassDeclaring(3, <<0, 0, 0>>
        \o <<BinaryTypeEnumeration.PrimitiveArray, BinaryTypeEnumeration.PrimitiveArray,
             BinaryTypeEnumeration.PrimitiveArray>>
        \o <<PrimitiveTypeEnumeration.Byte, PrimitiveTypeEnumeration.Byte,
             PrimitiveTypeEnumeration.Byte>>
        \o Int32LE(1))

CountMenu ==
    {ClassDeclaring(MaxInt32, <<0, 0, 0>>),
     ClassDeclaring(MaxInt32, <<>>),
     ClassDeclaring(-1, <<0, 0, 0>>),
     ClassOfEmptyStrings,
     ClassOfArrays,
     EncBinaryArray(BinaryArrayTypeEnumeration.Single, MaxInt32, <<2, 3>>, ElementInt32),
     EncBinaryArray(BinaryArrayTypeEnumeration.RectangularOffset, 3, <<2, 3>>,
                    ElementInt32),
     Lib, ClassC, WithIdC, Ref2, ArrPrim, TagNotImplemented, TagInvalid}

CountShapes == {<<"complete", 0>>, <<"cut", 1>>}

CountInit ==
    /\ \E n \in 0..MaxCountRecords : \E items \in [1..n -> CountMenu] :
           \E shape \in CountShapes : buffer = Stream(shape, Flatten(items))
    /\ position = PositionInit
    /\ records = <<>>
    /\ status = STREAMING
    /\ thrown = NoErr
    /\ result = NotReturned
    /\ NothingElseRuns

CountSpec == CountInit /\ [][Next]_vars /\ WF_vars(Next)

(***************************************************************************)
(* Properties.                                                             *)
(***************************************************************************)
IsPrefix(s, t) == Len(s) <= Len(t) /\ SubSeq(t, 1, Len(s)) = s

(* The ObjectId a record introduces; NoObjectId for a record with none. *)
NoObjectId == [t |-> "undefined"]
ObjectIdOf(record) ==
    CASE record.RecordTypeEnum = RecordTypeEnumeration.ClassWithMembersAndTypes ->
           Num(record.ClassInfo.ObjectId)
      [] record.RecordTypeEnum \in {RecordTypeEnumeration.ClassWithId,
                                    RecordTypeEnumeration.BinaryArray} ->
           Num(record.ObjectId)
      [] record.RecordTypeEnum = RecordTypeEnumeration.ArraySinglePrimitive ->
           Num(record.ArrayInfo.ObjectId)
      [] OTHER -> NoObjectId

(* C1: every record read without an exception appends exactly one record   *)
(* to the log, the one of the tag just read; an append keeps the earlier   *)
(* entries as they are, so the log at every step is a prefix of the log    *)
(* returned; a failing record and the terminator append nothing, and the   *)
(* returned log holds no MessageEnd record.                                *)
C1_LogAppendOnly ==
    [][ /\ IsPrefix(records, records')
        /\ status' = STREAMING =>
             /\ Len(records') = Len(records) + 1
             /\ records'[Len(records')].RecordTypeEnum = recordType.val
        /\ status' # STREAMING => records' = records
        /\ status' = DONE =>
             /\ result' = Returned(records)
             /\ \A i \in 1..Len(records) :
                    records[i].RecordTypeEnum # RecordTypeEnumeration.MessageEnd
      ]_vars

C1_Witness ==
    /\ status = DONE
    /\ Len(result.value) = 1 + MaxRecords

(* C2: read() starts in STREAMING; a step is taken only in STREAMING; it   *)
(* stays in STREAMING exactly when a record was read without an exception, *)
(* goes to DONE exactly when the tag read is 11, and to FAILED exactly     *)
(* when something was thrown; DONE and FAILED are terminal (the cursor     *)
(* never moves again), and in FAILED nothing has been returned.            *)
C2_StateMachine ==
    /\ status = STREAMING
    /\ [][ /\ status = STREAMING
           /\ status' \in {STREAMING, DONE, FAILED}
           /\ status' = DONE <=> (recordType.err = NoErr /\ recordType.val = 11)
           /\ status' = STREAMING <=>
                (thrown' = NoErr /\ Len(records') = Len(records) + 1)
           /\ status' = FAILED <=> thrown' # NoErr
           /\ status' = FAILED => result' = NotReturned
           /\ status' = DONE => result'.returned
         ]_vars

C2_Witness ==
    /\ status = FAILED
    /\ Len(records) = 1 + MaxRecords
    /\ result = NotReturned

(* C3: the stream [StreamHeader 1.0][BinaryLibrary 1 "Lib"]                 *)
(* [ClassWithMembersAndTypes 1 "C" {Int32 X = 42}][MessageEnd], from byte   *)
(* offset 0 of the buffer, is read without an exception and the log        *)
(* returned is the header, the library and the class with values [42].     *)
C3_Stream == Header10 \o Lib \o ClassC \o End

C3_SpecStreamDecodes ==
    buffer = C3_Stream =>
        /\ status # FAILED
        /\ status = DONE =>
             /\ Len(result.value) = 3
             /\ result.value[1].MajorVersion = 1
             /\ result.value[1].MinorVersion = 0
             /\ result.value[2].LibraryId = U32(1, 0)
             /\ result.value[2].LibraryName = NameLib
             /\ result.value[3].ClassInfo.Name = NameC
             /\ result.value[3].MemberValues = <<Num(42)>>

(* C4: a header record with all sixteen field bytes in the buffer and      *)
(* MajorVersion # 1 or MinorVersion # 0 makes read() throw, whatever       *)
(* follows it, and no header record is pushed; so no log ever holds a      *)
(* header of another version.                                              *)
C4_MalformedHeaderFails ==
    [][ /\ ( /\ Dispatch(RecordTypeEnumeration.SerializedStreamHeader)
             /\ InView(buffer, position + 1, 16)
             /\ \/ readInt32(buffer, position + 9).val # 1
                \/ readInt32(buffer, position + 13).val # 0 )
           => /\ status' = FAILED
              /\ thrown' = AssertionError
              /\ records' = records
        /\ \A i \in 1..Len(records') :
             records'[i].RecordTypeEnum = RecordTypeEnumeration.SerializedStreamHeader
               => records'[i].MajorVersion = 1 /\ records'[i].MinorVersion = 0
      ]_vars

C4_Witness ==
    /\ status = FAILED
    /\ thrown = AssertionError
    /\ records = <<>>
    /\ position = 18
    /\ SubSeq(buffer, 2, 18) = Header11
    /\ Len(buffer) > 18

(* C5: a tag other than 0, 1, 5, 7, 9, 11, 12, 15 read at a record         *)
(* boundary makes read() throw: nothing is pushed, the cursor stays just   *)
(* after the tag, nothing is returned.                                     *)
C5_UnsupportedTagFails ==
    [][ ( /\ status = STREAMING
          /\ recordType.err = NoErr
          /\ recordType.val \notin {0, 1, 5, 7, 9, 11, 12, 15} )
        => /\ status' = FAILED
           /\ thrown' \in {NotImplementedError, TypeError}
           /\ records' = records
           /\ position' = position + 1
           /\ result' = NotReturned
      ]_vars

C5_Witness ==
    /\ status = FAILED
    /\ thrown = TypeError
    /\ Len(records) = MaxRecords
    /\ position < Len(buffer)
    /\ buffer[position] = 23

(* C6: a ClassWithId record with its ObjectId and MetadataId in the buffer  *)
(* and no class-defining record among the records read before it whose     *)
(* ObjectId equals the MetadataId makes read() throw, with the cursor just  *)
(* after the MetadataId (no member value is read) and nothing pushed; a     *)
(* class-defining record later in the buffer does not count.                *)
C6_UnknownMetadataIdFails ==
    [][ ( /\ Dispatch(RecordTypeEnumeration.ClassWithId)
          /\ InView(buffer, position + 1, 8)
          /\ ~ \E k \in 1..Len(records) :
                 /\ records[k].RecordTypeEnum \in {2, 3, 4, 5}
                 /\ records[k].ClassInfo.ObjectId = readInt32(buffer, position + 5).val )
        => /\ status' = FAILED
           /\ thrown' = AssertionError
           /\ position' = position + 9
           /\ records' = records
      ]_vars

(* the instance of C precedes the definition of C in the buffer *)
C6_Witness ==
    /\ buffer = Stream(<<"complete", 0>>, WithIdC \o ClassC)
    /\ status = FAILED
    /\ thrown = AssertionError
    /\ Len(records) = 1
    /\ position = 1 + Len(Header10) + 9

(* C7: a ClassWithId record whose MetadataId is the ObjectId of a          *)
(* class-defining record R read before it has its member values read by    *)
(* R's ClassInfo and MemberTypeInfo, from the byte after the MetadataId:    *)
(* the values and the bytes consumed are those of #readClassMemberValues    *)
(* on R, as for R's own values; the record pushed holds RecordTypeEnum,     *)
(* ObjectId, MetadataId and MemberValues only, and R stays as it was.       *)
C7_SchemaReuse ==
    [][ ( /\ Dispatch(RecordTypeEnumeration.ClassWithId)
          /\ status' = STREAMING )
        => \E k \in 1..Len(records) :
             /\ records[k].RecordTypeEnum = RecordTypeEnumeration.ClassWithMembersAndTypes
             /\ records[k].ClassInfo.ObjectId = readInt32(buffer, position + 5).val
             /\ readClassMemberValues(buffer, position + 9, records[k])
                  = Ok(position', records'[Len(records')].MemberValues)
             /\ DOMAIN records'[Len(records')]
                  = {"RecordTypeEnum", "ObjectId", "MetadataId", "MemberValues"}
             /\ records'[Len(records')].ObjectId = readInt32(buffer, position + 1).val
             /\ records'[Len(records')].MetadataId = records[k].ClassInfo.ObjectId
             /\ records'[k] = records[k]
      ]_vars

(* an instance of D: a string and an inline reference read by D's schema *)
C7_Witness ==
    \E i \in 1..Len(records) :
        /\ records[i].RecordTypeEnum = RecordTypeEnumeration.ClassWithId
        /\ records[i].MetadataId = 2
        /\ records[i].MemberValues
             = <<Str(NameX), [t |-> "object", RecordTypeEnum |-> 9, IdRef |-> 4]>>

(* C8: in the log returned, a MemberReference record whose IdRef is the    *)
(* ObjectId of a record further on in the log carries the index of that    *)
(* record.                                                                 *)
C8_ForwardReferenceResolved ==
    status = DONE =>
        \A i \in 1..Len(result.value) : \A j \in 1..Len(result.value) :
            ( /\ i < j
              /\ result.value[i].RecordTypeEnum = RecordTypeEnumeration.MemberReference
              /\ ObjectIdOf(result.value[j]) = Num(result.value[i].IdRef) )
            => /\ "TargetIndex" \in DOMAIN result.value[i]
               /\ result.value[i].TargetIndex = j

(* The IdRefs of the log: of its MemberReference records and of the inline *)
(* references among its member values.                                     *)
IsInlineReference(value) == value.t = "object" /\ "IdRef" \in DOMAIN value

IdRefsOf(record) ==
    CASE record.RecordTypeEnum = RecordTypeEnumeration.MemberReference -> {record.IdRef}
      [] "MemberValues" \in DOMAIN record ->
           {record.MemberValues[m].IdRef :
              m \in {n \in 1..Len(record.MemberValues) :
                       IsInlineReference(record.MemberValues[n])}}
      [] OTHER -> {}

(* C9: read() returns a log only if every IdRef in it, of a MemberReference *)
(* record or of a Class-typed member value, is the ObjectId of a record of  *)
(* the log.                                                                 *)
C9_DanglingReferenceFails ==
    status = DONE =>
        \A i \in 1..Len(result.value) : \A ref \in IdRefsOf(result.value[i]) :
            \E j \in 1..Len(result.value) : ObjectIdOf(result.value[j]) = Num(ref)

(* Streams that are read to the end when complete. *)
WholeStreams ==
    {Stream(<<"complete", 0>>, body) : body \in {Lib \o ClassC, ClassD \o Lib, ClassE \o WithIdE}}

(* C10: the cursor never passes the end of the buffer, so no record is     *)
(* pushed whose fields were not all in the buffer; a tag read at the end of *)
(* the buffer throws RangeError; read() returns only after reading tag 11   *)
(* inside the buffer; and a stream that is read to the end when complete    *)
(* ends in RangeError, with nothing returned, when its last bytes are cut   *)
(* off, be the cut at a record boundary or inside a record or a string.     *)
C10_TruncatedInputFails ==
    [][ /\ position' <= Len(buffer)
        /\ ~InView(buffer, position, 1) =>
             status' = FAILED /\ thrown' = RangeError /\ result' = NotReturned
        /\ status' = DONE =>
             InView(buffer, position, 1) /\ ByteAt(buffer, position) = 11
        /\ thrown' = RangeError => status' = FAILED /\ result' = NotReturned
        /\ ( /\ status' # STREAMING
             /\ \E whole \in WholeStreams : \E c \in 1..MaxCut :
                    c < Len(whole) /\ buffer = Cut(whole, c) )
           => status' = FAILED /\ thrown' = RangeError /\ result' = NotReturned
      ]_vars

(* the buffer ends inside the string "Lib" of a library record *)
C10_Witness ==
    /\ buffer = Cut(Stream(<<"complete", 0>>, ClassD \o Lib), 2)
    /\ status = FAILED
    /\ thrown = RangeError
    /\ Len(records) = 2
    /\ position = Len(buffer)

(* The PrimitiveTypeEnum bytes the decoder read for a record of the log:   *)
(* the field of an ArraySinglePrimitive, the AdditionalInfo of a           *)
(* BinaryArray of Primitive or PrimitiveArray elements, the AdditionalInfo *)
(* of a class's Primitive and PrimitiveArray members.                      *)
HoldsPrimitiveType(binaryTypeEnum) ==
    binaryTypeEnum \in {BinaryTypeEnumeration.Primitive,
                        BinaryTypeEnumeration.PrimitiveArray}

PrimitiveTypeEnumsOf(record) ==
    CASE record.RecordTypeEnum = RecordTypeEnumeration.ArraySinglePrimitive ->
           {record.PrimitiveTypeEnum}
      [] record.RecordTypeEnum = RecordTypeEnumeration.BinaryArray ->
           IF HoldsPrimitiveType(record.TypeEnum)
           THEN {record.AdditionalTypeInfo.v} ELSE {}
      [] record.RecordTypeEnum = RecordTypeEnumeration.ClassWithMembersAndTypes ->
           {record.MemberTypeInfo.AdditionalInfos[m].v :
              m \in {n \in 1..record.ClassInfo.MemberCount :
                       HoldsPrimitiveType(record.MemberTypeInfo.BinaryTypeEnums[n])}}
      [] OTHER -> {}

(* C11: a PrimitiveTypeEnum byte of 4 or outside 1..18, read as the         *)
(* AdditionalInfo of a Primitive or PrimitiveArray member, as the           *)
(* AdditionalInfo of a BinaryArray of such elements or as the field of an   *)
(* ArraySinglePrimitive, makes read() fail: no log returned holds a record  *)
(* read with such a byte.                                                   *)
C11_InvalidPrimitiveTypeFails ==
    status = DONE =>
        \A i \in 1..Len(result.value) :
            \A type \in PrimitiveTypeEnumsOf(result.value[i]) :
                type \in 1..18 /\ type # 4

(* The BinaryTypeEnum bytes the decoder read for a record of the log: the  *)
(* element type of a BinaryArray, the member types of a class.             *)
BinaryTypeEnumsOf(record) ==
    CASE record.RecordTypeEnum = RecordTypeEnumeration.BinaryArray -> {record.TypeEnum}
      [] record.RecordTypeEnum = RecordTypeEnumeration.ClassWithMembersAndTypes ->
           {record.MemberTypeInfo.BinaryTypeEnums[m] :
              m \in 1..record.ClassInfo.MemberCount}
      [] OTHER -> {}

(* C17: a BinaryTypeEnum byte outside 0..7, as a class member's type byte   *)
(* or as the element type byte of a BinaryArray, makes read() fail: no log  *)
(* returned holds a record read with such a byte.                           *)
C17_InvalidBinaryTypeFails ==
    status = DONE =>
        \A i \in 1..Len(result.value) :
            \A type \in BinaryTypeEnumsOf(result.value[i]) : type \in 0..7

(* C18: a class member whose BinaryTypeEnum is not Primitive, String, Class *)
(* or PrimitiveArray makes read() fail at its value: no log returned holds  *)
(* a class record with such a member.                                       *)
C18_UnsupportedMemberTypeFails ==
    status = DONE =>
        \A i \in 1..Len(result.value) :
            result.value[i].RecordTypeEnum = RecordTypeEnumeration.ClassWithMembersAndTypes
              => \A m \in 1..result.value[i].ClassInfo.MemberCount :
                     result.value[i].MemberTypeInfo.BinaryTypeEnums[m]
                       \in {BinaryTypeEnumeration.Primitive,
                            BinaryTypeEnumeration.String,
                            BinaryTypeEnumeration.Class,
                            BinaryTypeEnumeration.PrimitiveArray}

(* C19: a MemberReference record with IdRef <= 0 makes read() fail and is  *)
(* not pushed: every MemberReference record of the log has IdRef > 0.       *)
C19_IdRefPositive ==
    \A i \in 1..Len(records) :
        records[i].RecordTypeEnum = RecordTypeEnumeration.MemberReference
          => records[i].IdRef > 0

(* C20: in a log returned, the first record is a SerializedStreamHeader     *)
(* record and no other record is one.                                       *)
C20_HeaderFirstAndOnly ==
    status = DONE =>
        /\ Len(result.value) >= 1
        /\ \A i \in 1..Len(result.value) :
             (result.value[i].RecordTypeEnum = RecordTypeEnumeration.SerializedStreamHeader)
               <=> (i = 1)

(* The w bytes at cursor pos, first byte first. *)
BytesAt(buf, pos, w) == [k \in 1..w |-> buf[pos + k]]

(* The value of bytes taken in little-endian order, by the method that     *)
(* reads them: the first byte is the least significant; a signed value     *)
(* takes its sign from the top bit of the last byte.  32-bit unsigned,     *)
(* 64-bit and float values are given by their 16-bit digits, least         *)
(* significant first.                                                      *)
Digit16(b, k) == b[2 * k - 1] + 256 * b[2 * k]
SignOf(b, w) == IF b[w] >= 128 THEN 1 ELSE 0

LittleEndianValue(method, b) ==
    CASE method = "readInt8" -> b[1] - 256 * SignOf(b, 1)
      [] method = "readUInt8" -> b[1]
      [] method = "readInt16" -> b[1] + 256 * (b[2] - 256 * SignOf(b, 2))
      [] method = "readUInt16" -> b[1] + 256 * b[2]
      [] method = "readInt32" ->
           b[1] + 256 * b[2] + 65536 * b[3] + 16777216 * (b[4] - 256 * SignOf(b, 4))
      [] method = "readUInt32" -> [lo |-> Digit16(b, 1), hi |-> Digit16(b, 2)]
      [] method = "readInt64" ->
           [t |-> "bigint", limbs |-> [k \in 1..4 |-> Digit16(b, k)], signed |-> TRUE]
      [] method = "readUInt64" ->
           [t |-> "bigint", limbs |-> [k \in 1..4 |-> Digit16(b, k)], signed |-> FALSE]
      [] method = "readFloat32" ->
           [t |-> "float", bits |-> [k \in 1..2 |-> Digit16(b, k)]]
      [] method = "readFloat64" ->
           [t |-> "float", bits |-> [k \in 1..4 |-> Digit16(b, k)]]

WidthOf ==
    [readInt8 |-> 1, readUInt8 |-> 1, readInt16 |-> 2, readUInt16 |-> 2,
     readInt32 |-> 4, readUInt32 |-> 4, readFloat32 |-> 4,
     readInt64 |-> 8, readUInt64 |-> 8, readFloat64 |-> 8]

(* C12: a fixed-width read that returns gives the little-endian value of   *)
(* the bytes at the old cursor and moves the cursor by its width, 1, 2, 4  *)
(* or 8, leaving the buffer as it was; the value returned is the one the   *)
(* caller gets.                                                            *)
C12_FixedWidthReads ==
    [][ \A method \in DOMAIN WidthOf :
          ( /\ Len(records') = Len(records) + 1
            /\ records'[Len(records')].method = method )
          => /\ position' = position + WidthOf[method]
             /\ position' <= Len(buffer)
             /\ records'[Len(records')].value
                  = LittleEndianValue(method, BytesAt(buffer, position, WidthOf[method]))
             /\ result' = Returned(records'[Len(records')].value)
             /\ SubSeq(records', 1, Len(records)) = records
             /\ buffer' = buffer
      ]_vars

(* two adjacent 32-bit values, 0x04030201 and -2^31, recovered by two reads *)
C12_Witness ==
    /\ buffer = Pad \o <<1, 2, 3, 4>> \o <<0, 0, 0, 128>>
    /\ records = << [method |-> "readInt32", value |-> 67305985],
                    [method |-> "readInt32", value |-> -2147483647 - 1] >>
    /\ position = 9

(* C13: a length-prefixed string read that returns took the byte at the    *)
(* old cursor as an unsigned count n, returns a string of n characters,    *)
(* the i-th with the code of the i-th byte after the count, and moves the  *)
(* cursor by 1 + n; a count of 0 gives the empty string and moves the      *)
(* cursor by 1.  So for BinaryReader.readString and for                    *)
(* #readLengthPrefixedString.                                              *)
C13_LengthPrefixedString ==
    [][ \A method \in {"readString", "readLengthPrefixedString"} :
          ( /\ Len(records') = Len(records) + 1
            /\ records'[Len(records')].method = method )
          => LET n == buffer[position + 1]
                 string == records'[Len(records')].value
             IN /\ n \in 0..255
                /\ position' = position + 1 + n
                /\ position' <= Len(buffer)
                /\ string.t = "string"
                /\ Len(string.v) = n
                /\ \A i \in 1..n : string.v[i] = buffer[position + 1 + i]
                /\ n = 0 => string.v = <<>>
                /\ buffer' = buffer
      ]_vars

(* a string of LongLength characters, count byte and codes above 127, then *)
(* the empty string                                                        *)
C13_Witness ==
    /\ buffer = Pad \o EncString(LongUnits) \o EncString(<<>>)
    /\ Len(records) = 2
    /\ records[1].method = "readLengthPrefixedString"
    /\ records[1].value = Str(LongUnits)
    /\ records[2].method = "readString"
    /\ records[2].value = Str(<<>>)
    /\ position = Len(buffer)

(* the JSON file of a directory entry *)
JSONName(dirent) == dirent.name \o DotJson

LoopEnded == entryIndex = Len(saveDirEntries) + 1

(* C14: when the decode of a file fails, no JSON file is written for it,   *)
(* the JSON files in _JSON_DUMP stay as they are and the loop goes on to   *)
(* the next entry; a write changes the file of the entry at hand alone;    *)
(* and when the loop has ended, every file among the entries whose decode  *)
(* succeeds has its JSON in _JSON_DUMP, wherever the failing files stood.  *)
C14_FailureIsolated ==
    /\ [][ /\ ( /\ AtEntry
                /\ entry.kind = IsFile
                /\ read(entry.data).err # NoErr )
              => /\ dumpDir' = dumpDir
                 /\ entryIndex' = entryIndex + 1
           /\ AtEntry =>
                \A name \in DOMAIN dumpDir :
                    name # JSONName(entry)
                      => name \in DOMAIN dumpDir' /\ dumpDir'[name] = dumpDir[name]
         ]_vars
    /\ [](LoopEnded =>
            \A i \in 1..Len(saveDirEntries) :
                ( /\ saveDirEntries[i].kind = IsFile
                  /\ read(saveDirEntries[i].data).err = NoErr )
                => /\ JSONName(saveDirEntries[i]) \in DOMAIN dumpDir
                   /\ dumpDir[JSONName(saveDirEntries[i])]
                        = JSONStringify(read(saveDirEntries[i].data)).val)

(* b.dat fails on an invalid tag, then a.dat is decoded over the stale     *)
(* a.dat.json, then a directory                                            *)
C14_Witness ==
    /\ Len(saveDirEntries) = MaxEntries
    /\ LoopEnded
    /\ saveDirEntries[1].name = NameBDat
    /\ read(saveDirEntries[1].data).err = TypeError
    /\ saveDirEntries[2].name = NameADat
    /\ read(saveDirEntries[2].data).err = NoErr
    /\ DOMAIN dumpDir = {NameADat \o DotJson}
    /\ dumpDir[NameADat \o DotJson] # StaleJSON

(* The decimal numeral of a character string, as four 16-bit limbs: the    *)
(* limbs times ten plus the digit, from limb k on with carry; a value that *)
(* does not fit in 64 bits has no limbs (<<>>).                            *)
RECURSIVE TimesTenPlus(_, _, _)
TimesTenPlus(limbs, k, carry) ==
    IF k > Len(limbs) THEN (IF carry = 0 THEN limbs ELSE <<>>)
    ELSE TimesTenPlus([limbs EXCEPT ![k] = (@ * 10 + carry) % 65536], k + 1,
                      (limbs[k] * 10 + carry) \div 65536)

RECURSIVE NumeralValue(_, _)
NumeralValue(digits, limbs) ==
    IF digits = <<>> \/ limbs = <<>> THEN limbs
    ELSE NumeralValue(Tail(digits), TimesTenPlus(limbs, 1, Head(digits) - 48))

(* a + b modulo 2^64, limb by limb from limb k with carry *)
RECURSIVE AddLimbs(_, _, _, _)
AddLimbs(a, b, k, carry) ==
    IF k > Len(a) THEN a
    ELSE AddLimbs([a EXCEPT ![k] = (@ + b[k] + carry) % 65536], b, k + 1,
                  (a[k] + b[k] + carry) \div 65536)

(* text is the decimal numeral of the 64-bit value: "-" exactly when the   *)
(* value is negative, then digits without a leading zero (a lone "0" for   *)
(* zero) whose number is the value's magnitude.                            *)
IsDecimalOf(text, value) ==
    LET negative == value.signed /\ value.limbs[4] >= 32768
        digits == IF negative THEN Tail(text) ELSE text
        number == NumeralValue(digits, <<0, 0, 0, 0>>)
    IN /\ text # <<>>
       /\ (text[1] = 45) <=> negative
       /\ digits # <<>>
       /\ \A i \in 1..Len(digits) : digits[i] \in 48..57
       /\ digits[1] = 48 => Len(digits) = 1
       /\ number # <<>>
       /\ IF negative THEN AddLimbs(value.limbs, number, 1, 0) = <<0, 0, 0, 0>>
          ELSE number = value.limbs

(* C15: in every JSON file the driver has written, each member value that  *)
(* read() returned as a 64-bit integer (Int64, UInt64, TimeSpan, DateTime) *)
(* is a string token holding the value's decimal numeral, and each other   *)
(* member value is returned by the replacer as it is and written as its    *)
(* own token.                                                              *)
C15_BigIntAsDecimalString ==
    \A i \in 1..Len(saveDirEntries) :
        ( /\ i < entryIndex
          /\ saveDirEntries[i].kind = IsFile
          /\ read(saveDirEntries[i].data).err = NoErr )
        => /\ JSONName(saveDirEntries[i]) \in DOMAIN dumpDir
           /\ LET data == read(saveDirEntries[i].data).val
                  json == dumpDir[JSONName(saveDirEntries[i])]
              IN /\ Len(json) = Len(data)
                 /\ \A r \in 1..Len(data) :
                      "MemberValues" \in DOMAIN data[r] =>
                        /\ Len(json[r].MemberValues) = Len(data[r].MemberValues)
                        /\ \A m \in 1..Len(data[r].MemberValues) :
                             IF data[r].MemberValues[m].t = "bigint"
                             THEN /\ json[r].MemberValues[m].token = "string"
                                  /\ IsDecimalOf(json[r].MemberValues[m].text,
                                                 data[r].MemberValues[m])
                             ELSE /\ replacer(m, data[r].MemberValues[m])
                                       = data[r].MemberValues[m]
                                  /\ json[r].MemberValues[m]
                                       = Token(data[r].MemberValues[m])

(* the file with 2^53 + 1, 2^64 - 1, -1 and -2^63 written *)
C15_Witness ==
    /\ entryIndex = 2
    /\ saveDirEntries[1].data = Pad \o Header10 \o Lib \o Class64 \o End
    /\ JSONName(saveDirEntries[1]) \in DOMAIN dumpDir
    /\ LET tokens == dumpDir[JSONName(saveDirEntries[1])][3].MemberValues
       IN /\ tokens[1] = [token |-> "string",
                          text |-> <<57, 48, 48, 55, 49, 57, 57, 50, 53, 52, 55, 52,
                                     48, 57, 57, 51>>]
          /\ tokens[2] = [token |-> "string",
                          text |-> <<49, 56, 52, 52, 54, 55, 52, 52, 48, 55, 51, 55,
                                     48, 57, 53, 53, 49, 54, 49, 53>>]
          /\ tokens[3] = [token |-> "string", text |-> <<45, 49>>]
          /\ tokens[4] = [token |-> "string",
                          text |-> <<45, 57, 50, 50, 51, 51, 55, 50, 48, 51, 54, 56,
                                     53, 52, 55, 55, 53, 56, 48, 56>>]
          /\ tokens[5] = [token |-> "number", number |-> Num(42)]

(* C16: readFile calls on files of their own, resumed in any order: a     *)
(* call that has settled has the outcome of read() run alone on its file,  *)
(* the log returned or the exception thrown; a step of one call changes no *)
(* other call's record; DotNetBinaryReader.#fs is null or the module, and  *)
(* is the module for every call past its import, whichever call set it.    *)
C16_CallsIndependent ==
    /\ [](/\ fs \in {Null, NodeFs}
          /\ \A i \in DOMAIN calls :
               /\ calls[i].pc = "settled" =>
                    /\ calls[i].outcome = read(calls[i].file)
                    /\ calls[i].reader.view = calls[i].file
               /\ calls[i].pc \in {"awaitReadFile", "settled"} => fs = NodeFs)
    /\ [][ \A i \in DOMAIN calls :
             calls'[i] # calls[i] =>
               \A j \in DOMAIN calls \ {i} : calls'[j] = calls[j]
         ]_vars

(* both calls found #fs null and imported the module; one returned a log,  *)
(* the other threw                                                         *)
C16_Witness ==
    /\ \A i \in DOMAIN calls : calls[i].pc = "settled" /\ calls[i].imported
    /\ calls[1].outcome.err = NoErr
    /\ Len(calls[1].outcome.val) = 3
    /\ calls[2].outcome.err = RangeError

(* the 32-bit signed value of the four bytes at pos, lowest byte first *)
Int32At(buf, pos) == LittleEndianValue("readInt32", BytesAt(buf, pos, 4))

IsValueRead(k) == readLog[k].what = "MemberValue"
IsArrayRead(k) == readLog[k].what = "ArrayInfo"
TypeOfMember(m) == frame.memberTypeInfo.BinaryTypeEnums[m]
HasValue(m) ==
    TypeOfMember(m) \in {BinaryTypeEnumeration.Primitive, BinaryTypeEnumeration.String,
                         BinaryTypeEnumeration.Class}
IsArrayMember(m) == TypeOfMember(m) = BinaryTypeEnumeration.PrimitiveArray

(* C21: in the member values of a class record the values of the           *)
(* Primitive, String and Class members are read first, in member order,    *)
(* and a PrimitiveArray member takes no byte there; only then, for each    *)
(* PrimitiveArray member in member order, nine bytes are read, a tag byte  *)
(* and an ArrayInfo with ObjectId > 0 and Length >= 0, and the call fails  *)
(* on any other ArrayInfo; the reads follow one another in the buffer, the *)
(* call returns with the cursor behind the last of them, and MemberValues  *)
(* holds nothing at the place of a PrimitiveArray member.                  *)
C21_ArraysAfterValues ==
    /\ [](/\ \A k \in DOMAIN readLog : \A l \in DOMAIN readLog :
               /\ (k < l /\ IsValueRead(k) /\ IsValueRead(l))
                    => readLog[k].member < readLog[l].member
               /\ (k < l /\ IsArrayRead(k) /\ IsArrayRead(l))
                    => readLog[k].member < readLog[l].member
               /\ (IsArrayRead(k) /\ IsValueRead(l)) => l < k
               /\ l = k + 1 => readLog[l].from = readLog[k].to
          /\ \A k \in DOMAIN readLog :
               /\ (IsValueRead(k) /\ IsArrayMember(readLog[k].member))
                    => readLog[k].to = readLog[k].from
               /\ (IsValueRead(k) /\ HasValue(readLog[k].member))
                    => readLog[k].to > readLog[k].from
               /\ IsArrayRead(k) =>
                    /\ IsArrayMember(readLog[k].member)
                    /\ readLog[k].to = readLog[k].from + 9
                    /\ readLog[k].value.tag
                         = LittleEndianValue("readInt8", BytesAt(buffer, readLog[k].from, 1))
                    /\ readLog[k].value.ArrayInfo.ObjectId
                         = Int32At(buffer, readLog[k].from + 1)
                    /\ readLog[k].value.ArrayInfo.Length
                         = Int32At(buffer, readLog[k].from + 5)
                    /\ readLog[k].value.ArrayInfo.ObjectId > 0
                    /\ readLog[k].value.ArrayInfo.Length >= 0
                    /\ \A m \in 1..frame.record.ClassInfo.MemberCount :
                         /\ \E l \in 1..(k - 1) :
                              IsValueRead(l) /\ readLog[l].member = m
                         /\ (IsArrayMember(m) /\ m < readLog[k].member)
                              => \E l \in 1..(k - 1) :
                                   IsArrayRead(l) /\ readLog[l].member = m
          /\ frame.pc = "returned" =>
               /\ position = readLog[Len(readLog)].to
               /\ \A m \in 1..frame.record.ClassInfo.MemberCount :
                    /\ IsArrayMember(m) =>
                         /\ \E k \in DOMAIN readLog :
                              IsArrayRead(k) /\ readLog[k].member = m
                         /\ \/ m > Len(result.value.MemberValues)
                            \/ result.value.MemberValues[m] = Hole
                    /\ HasValue(m) =>
                         \E k \in DOMAIN readLog :
                           /\ IsValueRead(k)
                           /\ readLog[k].member = m
                           /\ result.value.MemberValues[m] = readLog[k].value)
    /\ [][ ( /\ frame.pc = "PrimitiveArrays"
             /\ IsArrayMember(frame.i)
             /\ InView(buffer, position, 9)
             /\ \/ Int32At(buffer, position + 1) <= 0
                \/ Int32At(buffer, position + 5) < 0 )
           => /\ frame'.pc = "thrown"
              /\ thrown' = AssertionError
              /\ readLog' = readLog
         ]_vars

(* class C { Int32[] X; Boolean X }: the Boolean is read before the nine   *)
(* bytes of the array, and only the Boolean is in MemberValues             *)
C21_Witness ==
    /\ frame.pc = "returned"
    /\ frame.memberTypeInfo.BinaryTypeEnums
         = <<BinaryTypeEnumeration.PrimitiveArray, BinaryTypeEnumeration.Primitive>>
    /\ result.value.MemberValues = <<Hole, Bool(TRUE)>>
    /\ \E k \in DOMAIN readLog :
         /\ IsValueRead(k)
         /\ readLog[k].member = 2
         /\ IsArrayRead(k + 1)
         /\ readLog[k + 1].member = 1
         /\ readLog[k + 1].value.ArrayInfo.Length = 2
    /\ buffer[position + 1] = RecordTypeEnumeration.MessageEnd

TypeReads == SelectSeq(readLog, LAMBDA e : e.what = "BinaryTypeEnum")
InfoReads == SelectSeq(readLog, LAMBDA e : e.what = "AdditionalInfo")

(* the bytes of the AdditionalInfo of a member type: one for Primitive and *)
(* PrimitiveArray, a length-prefixed name and four more for Class          *)
InfoWidth(buf, pos, type) ==
    CASE type \in {BinaryTypeEnumeration.Primitive,
                   BinaryTypeEnumeration.PrimitiveArray} -> 1
      [] type = BinaryTypeEnumeration.Class -> 1 + buf[pos + 1] + 4
      [] OTHER -> 0

(* C22: of a class with MemberCount n, the n type bytes are read first,    *)
(* from n bytes in a row, and only then the AdditionalInfos, one for each  *)
(* member in member order, each of the kind its member's type byte asks    *)
(* for; BinaryTypeEnums and AdditionalInfos of the record both have n      *)
(* entries.                                                                *)
C22_TypeBytesBeforeInfos ==
    /\ \A k \in DOMAIN TypeReads :
         /\ TypeReads[k].member = k
         /\ TypeReads[k].from = TypeReads[1].from + k - 1
         /\ TypeReads[k].to = TypeReads[k].from + 1
         /\ TypeReads[k].value = buffer[TypeReads[k].from + 1]
    /\ TypeReads # <<>> => Len(TypeReads) <= frame.record.ClassInfo.MemberCount
    /\ frame.memberTypeInfo.BinaryTypeEnums = [k \in DOMAIN TypeReads |-> TypeReads[k].value]
    /\ frame.memberTypeInfo.AdditionalInfos = [k \in DOMAIN InfoReads |-> InfoReads[k].value]
    /\ \A k \in DOMAIN readLog : \A l \in DOMAIN readLog :
         (readLog[k].what = "AdditionalInfo" /\ readLog[l].what = "BinaryTypeEnum")
           => l < k
    /\ InfoReads # <<>> =>
         /\ Len(TypeReads) = frame.record.ClassInfo.MemberCount
         /\ InfoReads[1].from = TypeReads[Len(TypeReads)].to
    /\ \A k \in DOMAIN InfoReads :
         /\ InfoReads[k].member = k
         /\ k > 1 => InfoReads[k].from = InfoReads[k - 1].to
         /\ InfoReads[k].to
              = InfoReads[k].from + InfoWidth(buffer, InfoReads[k].from, TypeReads[k].value)
         /\ TypeReads[k].value \in {BinaryTypeEnumeration.Primitive,
                                    BinaryTypeEnumeration.PrimitiveArray}
              => InfoReads[k].value.t = "number"
         /\ TypeReads[k].value = BinaryTypeEnumeration.Class
              => InfoReads[k].value.t = "object"
         /\ TypeReads[k].value \in {BinaryTypeEnumeration.String,
                                    BinaryTypeEnumeration.Object,
                                    BinaryTypeEnumeration.ObjectArray,
                                    BinaryTypeEnumeration.StringArray}
              => InfoReads[k].value = Null
    /\ frame.pc \in {"MemberValues", "PrimitiveArrays", "return", "returned"} =>
         /\ Len(frame.record.MemberTypeInfo.BinaryTypeEnums)
              = frame.record.ClassInfo.MemberCount
         /\ Len(frame.record.MemberTypeInfo.AdditionalInfos)
              = frame.record.ClassInfo.MemberCount
         /\ frame.record.MemberTypeInfo = frame.memberTypeInfo

(* class C { C X; Boolean X }: the type byte of the second member lies     *)
(* between the first member's type byte and its AdditionalInfo             *)
C22_Witness ==
    /\ frame.pc = "returned"
    /\ result.value.MemberTypeInfo.BinaryTypeEnums
         = <<BinaryTypeEnumeration.Class, BinaryTypeEnumeration.Primitive>>
    /\ result.value.MemberTypeInfo.AdditionalInfos
         = <<[t |-> "object", TypeName |-> NameC, LibraryId |-> 1],
             Num(PrimitiveTypeEnumeration.Boolean)>>
    /\ InfoReads[1].from = TypeReads[1].to + 1
    /\ InfoReads[1].to = InfoReads[1].from + 6

(* C24: #readAdditionalInfo for a type byte in 0..7: one byte, returned as *)
(* a number, for Primitive and PrimitiveArray; no byte and null for        *)
(* String, Object, ObjectArray and StringArray; a length-prefixed TypeName *)
(* and a 32-bit LibraryId, returned as the pair, for Class; an exception   *)
(* and nothing returned for SystemClass.                                   *)
C24_AdditionalInfoByType ==
    [][ ( /\ frame.pc = "AdditionalInfos"
          /\ memberType \in 0..7
          /\ InView(buffer, position, InfoWidth(buffer, position, memberType)) )
        => CASE memberType \in {BinaryTypeEnumeration.Primitive,
                                BinaryTypeEnumeration.PrimitiveArray} ->
                  /\ position' = position + 1
                  /\ frame'.memberTypeInfo.AdditionalInfos
                       = Append(frame.memberTypeInfo.AdditionalInfos,
                                Num(LittleEndianValue("readInt8",
                                                      BytesAt(buffer, position, 1))))
             [] memberType \in {BinaryTypeEnumeration.String,
                                BinaryTypeEnumeration.Object,
                                BinaryTypeEnumeration.ObjectArray,
                                BinaryTypeEnumeration.StringArray} ->
                  /\ position' = position
                  /\ frame'.memberTypeInfo.AdditionalInfos
                       = Append(frame.memberTypeInfo.AdditionalInfos, Null)
             [] memberType = BinaryTypeEnumeration.Class ->
                  /\ position' = position + 1 + buffer[position + 1] + 4
                  /\ frame'.memberTypeInfo.AdditionalInfos
                       = Append(frame.memberTypeInfo.AdditionalInfos,
                                [t |-> "object",
                                 TypeName |-> BytesAt(buffer, position + 1,
                                                      buffer[position + 1]),
                                 LibraryId |-> Int32At(buffer, position + 1
                                                         + buffer[position + 1])])
             [] memberType = BinaryTypeEnumeration.SystemClass ->
                  /\ frame'.pc = "thrown"
                  /\ thrown' = NotImplementedError
                  /\ position' = position
                  /\ frame'.memberTypeInfo = frame.memberTypeInfo
                  /\ readLog' = readLog
      ]_vars

(* class C { C X; <SystemClass> X }: the pair for the first member, the    *)
(* exception at the second                                                 *)
C24_Witness ==
    /\ frame.pc = "thrown"
    /\ thrown = NotImplementedError
    /\ frame.memberTypeInfo.BinaryTypeEnums
         = <<BinaryTypeEnumeration.Class, BinaryTypeEnumeration.SystemClass>>
    /\ frame.memberTypeInfo.AdditionalInfos
         = <<[t |-> "object", TypeName |-> NameC, LibraryId |-> 1]>>

PrimitiveTypeOfMember(m) == frame.memberTypeInfo.AdditionalInfos[m].v
IsPrimitiveRead(k, types) ==
    /\ IsValueRead(k)
    /\ TypeOfMember(readLog[k].member) = BinaryTypeEnumeration.Primitive
    /\ PrimitiveTypeOfMember(readLog[k].member) \in types

(* C25: the value of a Primitive member: a Boolean takes one byte and is   *)
(* true exactly when the byte is not 0; a Decimal takes a length byte and  *)
(* that many bytes and is the string of those bytes; a TimeSpan and a      *)
(* DateTime take eight bytes and are the signed 64-bit integer of those    *)
(* bytes, lowest first.                                                    *)
C25_PrimitiveValues ==
    \A k \in DOMAIN readLog :
      /\ IsPrimitiveRead(k, {PrimitiveTypeEnumeration.Boolean}) =>
           /\ readLog[k].to = readLog[k].from + 1
           /\ readLog[k].value = Bool(buffer[readLog[k].from + 1] # 0)
      /\ IsPrimitiveRead(k, {PrimitiveTypeEnumeration.Decimal}) =>
           /\ readLog[k].to = readLog[k].from + 1 + buffer[readLog[k].from + 1]
           /\ readLog[k].value
                = Str(BytesAt(buffer, readLog[k].from + 1, buffer[readLog[k].from + 1]))
      /\ IsPrimitiveRead(k, {PrimitiveTypeEnumeration.TimeSpan,
                             PrimitiveTypeEnumeration.DateTime}) =>
           /\ readLog[k].to = readLog[k].from + 8
           /\ readLog[k].value
                = LittleEndianValue("readInt64", BytesAt(buffer, readLog[k].from, 8))

(* class C { Decimal X; DateTime X } with "1.5" and -2^63 *)
C25_Witness ==
    /\ frame.pc = "returned"
    /\ result.value.MemberTypeInfo.AdditionalInfos
         = <<Num(PrimitiveTypeEnumeration.Decimal), Num(PrimitiveTypeEnumeration.DateTime)>>
    /\ result.value.MemberValues
         = <<Str(DecimalText), BigIntOf(<<0, 0, 0, 32768>>, TRUE)>>

(* C26: the value of a Class member takes five bytes, a tag byte and a     *)
(* 32-bit IdRef, and is the pair of the two, stored at the member's index; *)
(* the next read starts behind the five bytes, whatever the tag, and no    *)
(* record is appended to a log.                                            *)
C26_InlineReference ==
    /\ records = <<>>
    /\ \A k \in DOMAIN readLog :
         (IsValueRead(k) /\ TypeOfMember(readLog[k].member) = BinaryTypeEnumeration.Class)
           => /\ readLog[k].to = readLog[k].from + 5
              /\ readLog[k].value
                   = [t |-> "object",
                      RecordTypeEnum |-> LittleEndianValue("readInt8",
                                           BytesAt(buffer, readLog[k].from, 1)),
                      IdRef |-> Int32At(buffer, readLog[k].from + 1)]
              /\ frame.pc \in {"PrimitiveArrays", "return", "returned"}
                   => frame.memberValues[readLog[k].member] = readLog[k].value
              /\ k < Len(readLog) => readLog[k + 1].from = readLog[k].from + 5
              /\ k = Len(readLog) /\ frame.pc # "thrown"
                   => position = readLog[k].from + 5

(* class C { C X; Boolean X }: the reference carries the tag of a class    *)
(* record, the Boolean is read right behind it                             *)
C26_Witness ==
    /\ frame.pc = "returned"
    /\ result.value.MemberValues
         = <<[t |-> "object",
              RecordTypeEnum |-> RecordTypeEnumeration.ClassWithMembersAndTypes,
              IdRef |-> 3],
             Bool(TRUE)>>
    /\ records = <<>>

(* C28: the value of a Char member takes one byte b and is the string of   *)
(* the one character with code b.                                          *)
C28_CharFromByte ==
    \A k \in DOMAIN readLog :
      IsPrimitiveRead(k, {PrimitiveTypeEnumeration.Char}) =>
        /\ readLog[k].to = readLog[k].from + 1
        /\ readLog[k].value = Str(<<buffer[readLog[k].from + 1]>>)

(* the signed value of the byte at pos *)
Int8At(buf, pos) == LittleEndianValue("readInt8", BytesAt(buf, pos, 1))

(* Of the BinaryArray whose fields start at p: its kind, its Rank, whether *)
(* the kind is an Offset variant, and the offset of its element-type byte, *)
(* behind the Lengths and the LowerBounds.                                 *)
KindAt(buf, p) == Int8At(buf, p + 4)
RankAt(buf, p) == Int32At(buf, p + 5)
IsOffsetKindAt(buf, p) == KindAt(buf, p) \in {3, 4, 5}
ElementTypeAt(buf, p) ==
    p + 4 + 1 + 4 + 4 * RankAt(buf, p)
      + (IF IsOffsetKindAt(buf, p) THEN 4 * RankAt(buf, p) ELSE 0)
Int32sAt(buf, pos, n) == [k \in 1..n |-> Int32At(buf, pos + 4 * (k - 1))]

(* C23: a BinaryArray record whose kind is outside 0..5 or whose Rank is   *)
(* not above 0 is refused; one that is accepted has Rank Lengths, has Rank *)
(* LowerBounds when its kind is SingleOffset, JaggedOffset or              *)
(* RectangularOffset and no LowerBounds otherwise, then its element-type   *)
(* byte and that type's AdditionalInfo: behind the tag it takes            *)
(* 4 + 1 + 4 + 4*Rank (+ 4*Rank) + 1 bytes and those of the AdditionalInfo.*)
C23_BinaryArrayShape ==
    [][ Dispatch(RecordTypeEnumeration.BinaryArray) =>
          /\ ( /\ InView(buffer, position + 1, 9)
               /\ \/ KindAt(buffer, position + 1) \notin 0..5
                  \/ RankAt(buffer, position + 1) <= 0 )
             => /\ status' = FAILED
                /\ thrown' = AssertionError
                /\ records' = records
          /\ status' = STREAMING =>
               /\ KindAt(buffer, position + 1) \in 0..5
               /\ RankAt(buffer, position + 1) > 0
               /\ Len(records') = Len(records) + 1
               /\ records'[Len(records')].RecordTypeEnum = RecordTypeEnumeration.BinaryArray
               /\ records'[Len(records')].ObjectId = Int32At(buffer, position + 1)
               /\ records'[Len(records')].BinaryArrayTypeEnum = KindAt(buffer, position + 1)
               /\ records'[Len(records')].Rank = RankAt(buffer, position + 1)
               /\ records'[Len(records')].Lengths
                    = Int32sAt(buffer, position + 10, RankAt(buffer, position + 1))
               /\ IF IsOffsetKindAt(buffer, position + 1)
                  THEN /\ "LowerBounds" \in DOMAIN records'[Len(records')]
                       /\ records'[Len(records')].LowerBounds
                            = Int32sAt(buffer,
                                       position + 10 + 4 * RankAt(buffer, position + 1),
                                       RankAt(buffer, position + 1))
                  ELSE "LowerBounds" \notin DOMAIN records'[Len(records')]
               /\ records'[Len(records')].TypeEnum
                    = Int8At(buffer, ElementTypeAt(buffer, position + 1))
               /\ position'
                    = ElementTypeAt(buffer, position + 1) + 1
                        + InfoWidth(buffer, ElementTypeAt(buffer, position + 1) + 1,
                                    records'[Len(records')].TypeEnum)
      ]_vars

(* a RectangularOffset array of Rank 2 of class C, read to the end *)
C23_Witness ==
    /\ status = DONE
    /\ \E k \in DOMAIN records :
         /\ records[k].RecordTypeEnum = RecordTypeEnumeration.BinaryArray
         /\ records[k].BinaryArrayTypeEnum = BinaryArrayTypeEnumeration.RectangularOffset
         /\ records[k].Rank = 2
         /\ records[k].Lengths = <<2, 3>>
         /\ records[k].LowerBounds = <<-1, 1>>
         /\ records[k].AdditionalTypeInfo
              = [t |-> "object", TypeName |-> NameC, LibraryId |-> 1]

(* C27: an ArraySinglePrimitive record that is accepted takes nine bytes   *)
(* behind its tag, whatever its Length, and a BinaryArray record that is   *)
(* accepted takes its shape and element type only, whatever its Lengths;   *)
(* the next record's tag, or the terminator, is the byte the cursor is     *)
(* then at.                                                                *)
C27_ElementsNotConsumed ==
    [][ /\ ( /\ Dispatch(RecordTypeEnumeration.ArraySinglePrimitive)
             /\ status' = STREAMING )
           => /\ position' = position + 1 + 9
              /\ Len(records') = Len(records) + 1
              /\ records'[Len(records')].ArrayInfo.Length = Int32At(buffer, position + 5)
        /\ ( /\ Dispatch(RecordTypeEnumeration.BinaryArray)
             /\ status' = STREAMING )
           => position'
                = ElementTypeAt(buffer, position + 1) + 1
                    + InfoWidth(buffer, ElementTypeAt(buffer, position + 1) + 1,
                                Int8At(buffer, ElementTypeAt(buffer, position + 1)))
        /\ (status = STREAMING /\ Len(records') = Len(records) + 1)
           => records'[Len(records')].RecordTypeEnum = Int8At(buffer, position)
        /\ (status = STREAMING /\ status' = DONE)
           => /\ Int8At(buffer, position) = RecordTypeEnumeration.MessageEnd
              /\ position' = position + 1
      ]_vars

(* an array of Length 2 with its two elements behind it: the first byte of *)
(* the first element is taken for the terminator                           *)
C27_Witness ==
    /\ status = DONE
    /\ records # <<>>
    /\ records[Len(records)].RecordTypeEnum = RecordTypeEnumeration.ArraySinglePrimitive
    /\ records[Len(records)].ArrayInfo.Length = 2
    /\ SubSeq(buffer, position, position + 7) = Elements
    /\ position + 7 < Len(buffer)

(* the records of the log that define a class with this ObjectId *)
ClassRecordsWithId(id) ==
    {k \in DOMAIN records :
       /\ records[k].RecordTypeEnum \in {2, 3, 4, 5}
       /\ records[k].ClassInfo.ObjectId = id}
Latest(indices) == CHOOSE k \in indices : \A j \in indices : j <= k

(* C30: the schema of a ClassWithId is the latest record of the log that   *)
(* defines a class and whose ObjectId is the MetadataId: the member values *)
(* are read by that record; when no such record is in the log the read     *)
(* fails behind the MetadataId, whatever ClassWithId, BinaryArray,         *)
(* ArraySinglePrimitive or MemberReference records carry that id.          *)
C30_LatestClassRecord ==
    [][ ( /\ Dispatch(RecordTypeEnumeration.ClassWithId)
          /\ InView(buffer, position + 1, 8) )
        => IF ClassRecordsWithId(Int32At(buffer, position + 5)) = {}
           THEN /\ status' = FAILED
                /\ thrown' = AssertionError
                /\ position' = position + 9
                /\ records' = records
           ELSE IF readClassMemberValues(buffer, position + 9,
                      records[Latest(ClassRecordsWithId(Int32At(buffer, position + 5)))]
                   ).err = NoErr
           THEN /\ status' = STREAMING
                /\ records'
                     = Append(records,
                         [RecordTypeEnum |-> RecordTypeEnumeration.ClassWithId,
                          ObjectId |-> Int32At(buffer, position + 1),
                          MetadataId |-> Int32At(buffer, position + 5),
                          MemberValues |->
                            readClassMemberValues(buffer, position + 9,
                              records[Latest(ClassRecordsWithId(
                                        Int32At(buffer, position + 5)))]).val])
                /\ position'
                     = readClassMemberValues(buffer, position + 9,
                         records[Latest(ClassRecordsWithId(
                                   Int32At(buffer, position + 5)))]).pos
           ELSE /\ status' = FAILED
                /\ records' = records
                /\ thrown'
                     = readClassMemberValues(buffer, position + 9,
                         records[Latest(ClassRecordsWithId(
                                   Int32At(buffer, position + 5)))]).err
      ]_vars

(* classes C and E, both with ObjectId 1, then an instance of class 1: its *)
(* values are read as E's, an array and a Boolean                          *)
C30_Witness ==
    /\ status = DONE
    /\ Len(records) = 4
    /\ records[2].RecordTypeEnum = RecordTypeEnumeration.ClassWithMembersAndTypes
    /\ records[3].RecordTypeEnum = RecordTypeEnumeration.ClassWithMembersAndTypes
    /\ records[2].ClassInfo.Name = NameC
    /\ records[3].ClassInfo.Name = NameE
    /\ records[2].ClassInfo.ObjectId = records[3].ClassInfo.ObjectId
    /\ records[4].RecordTypeEnum = RecordTypeEnumeration.ClassWithId
    /\ records[4].MetadataId = records[3].ClassInfo.ObjectId
    /\ records[4].MemberValues = <<Hole, Bool(TRUE)>>

(* C29: read() ends on every buffer: it returns or throws, whatever       *)
(* MemberCount and Rank the bytes declare; every pass of its loop that     *)
(* goes on to another has moved the cursor forward by the tag byte at      *)
(* least, and the cursor never leaves the buffer.                          *)
C29_ReadTerminates ==
    /\ <>(status \in {DONE, FAILED})
    /\ [](position <= Len(buffer) /\ Len(records) < position)
    /\ [][status' = STREAMING => position' > position]_vars

(* a class that declares 2^31 - 1 members: the names have been read up to  *)
(* the end of the buffer, where the read failed                            *)
C29_Witness ==
    /\ status = FAILED
    /\ thrown = RangeError
    /\ position = Len(buffer)
    /\ records # <<>>
    /\ \E p \in 1..(Len(buffer) - 4) :
         /\ Int32At(buffer, p) = MaxInt32
         /\ Int8At(buffer, p - 7) = RecordTypeEnumeration.ClassWithMembersAndTypes
         /\ position > p + 4

=============================================================================
